---- MODULE Spec2Model ----
(***************************************************************************)
(* Pi42 dashboard: the POST /api/pi42 request proxy (route handler), the   *)
(* market bundle fetcher and the dashboard's realtime reconciler.          *)
(*                                                                         *)
(* JavaScript values are written as tagged records: [t |-> "string", s],   *)
(* [t |-> "number", n], [t |-> "boolean", b], [t |-> "null"],              *)
(* [t |-> "undefined"], [t |-> "object", o] (o a function from keys to     *)
(* values) and [t |-> "array", a].                                         *)
(***************************************************************************)
EXTENDS Integers, Sequences, FiniteSets, TLC

VARIABLES
  \* ---- POST /api/pi42: one invocation of the route handler
  phase,      \* "idle" | "fetching" | "reading" | "done": where POST stands
  raw,        \* the request body as the client sent it
  forward,    \* the upstream request: url and forwardInit
  response,   \* the settlement of `await fetch(url, forwardInit)`
  text,       \* the settlement of `await response.text()`
  result,     \* the NextResponse the handler returned
  thrown,     \* TRUE when POST let an exception escape to its caller
  \* ---- Dashboard: props, React state and refs
  lifecycle,        \* "rendered" | "mounted" | "unmounted"
  contracts,        \* the contracts prop
  selectedSymbol,
  interval,
  ticker,
  depth,
  trades,
  klines,
  loading,
  socketConnected,
  socketRef,        \* 0 for null, else the number of the socket it holds
  \* ---- Dashboard: what surrounds the component
  transport,        \* the socket.io connection: "none" | "connecting" | "open" | "closed"
  ops,              \* every call made on the socket, in order
  fetches,          \* the fetchMarketBundle calls, in order of start
  wire,             \* events the feed has sent and the socket has not yet dispatched
  last,             \* the payload dispatched most recently
  nSelections,      \* selection changes made so far
  nReselections,    \* selections of what was selected already
  nEvents,          \* feed events sent so far
  nConnects,        \* `connect` events so far
  \* ---- Home and ApiExplorer
  page,             \* what Home was given and what it handed to Dashboard
  explorer          \* ApiExplorer's form, its React state and its request

proxyVars == <<phase, raw, forward, response, text, result, thrown>>

stateVars == <<ticker, depth, trades, klines>>

dashVars ==
  <<lifecycle, contracts, selectedSymbol, interval, loading, socketConnected,
    socketRef, transport, ops, fetches, wire, nSelections, nReselections,
    nConnects>>

feedVars == <<last, nEvents>>

pageVars == <<page, explorer>>

vars == <<proxyVars, stateVars, dashVars, feedVars, pageVars>>

(***************************************************************************)
(* JavaScript values                                                       *)
(***************************************************************************)
JStr(s) == [t |-> "string", s |-> s]
JNum(n) == [t |-> "number", n |-> n]
JBool(b) == [t |-> "boolean", b |-> b]
JNull == [t |-> "null"]
JUndef == [t |-> "undefined"]
JObj(o) == [t |-> "object", o |-> o]
JArr(a) == [t |-> "array", a |-> a]

\* The empty object {}.
EmptyObject == JObj(<<>>)

\* A thrown Error: its class and its message.
Err(name, message) == [name |-> name, message |-> message]

(***************************************************************************)
(* requestSchema                                                           *)
(***************************************************************************)
MethodEnum == {"GET", "POST", "PUT", "DELETE", "PATCH"}
TargetEnum == {"public", "private"}

\* z.string().startsWith("/")
StartsWithSlash(s) == Len(s) >= 1 /\ SubSeq(s, 1, 1) = "/"

\* z.record(z.string(), V): a plain object all of whose values satisfy V.
IsRecordOf(v, Types) ==
  /\ v.t = "object"
  /\ \A k \in DOMAIN v.o : v.o[k].t \in Types

\* One zod issue per offending field of the request object.
FieldIssues(v) ==
  LET has(f) == f \in DOMAIN v.o
      get(f) == IF has(f) THEN v.o[f] ELSE JUndef
      issue(f, code) == {[path |-> f, code |-> code]}
      none == {}
  IN  (IF get("method").t = "string" /\ get("method").s \in MethodEnum
         THEN none ELSE issue("method", "invalid_enum_value"))
      \cup
      (IF get("path").t # "string" THEN issue("path", "invalid_type")
       ELSE IF ~StartsWithSlash(get("path").s)
         THEN issue("path", "invalid_string") ELSE none)
      \cup
      (IF get("target").t = "undefined" THEN none
       ELSE IF get("target").t = "string" /\ get("target").s \in TargetEnum
         THEN none ELSE issue("target", "invalid_enum_value"))
      \cup
      (IF get("query").t = "undefined" THEN none
       ELSE IF IsRecordOf(get("query"), {"string", "number", "boolean"})
         THEN none ELSE issue("query", "invalid_union"))
      \cup
      (IF get("headers").t = "undefined" THEN none
       ELSE IF IsRecordOf(get("headers"), {"string"})
         THEN none ELSE issue("headers", "invalid_type"))
      \cup
      (IF get("body").t \in {"undefined", "string"} THEN none
       ELSE IF IsRecordOf(get("body"),
                 {"string", "number", "boolean", "null", "object", "array"})
         THEN none ELSE issue("body", "invalid_union"))

\* requestSchema.safeParse(raw): the issues, and on success the data with the
\* defaults filled in.
SafeParse(v) ==
  IF v.t # "object"
    THEN [success |-> FALSE,
          issues |-> {[path |-> "", code |-> "invalid_type"]}]
  ELSE IF FieldIssues(v) # {}
    THEN [success |-> FALSE, issues |-> FieldIssues(v)]
  ELSE LET get(f) == IF f \in DOMAIN v.o THEN v.o[f] ELSE JUndef
       IN  [success |-> TRUE,
            issues |-> {},
            data |-> [method |-> get("method").s,
                      path |-> get("path").s,
                      target |-> IF get("target").t = "undefined"
                                   THEN "public" ELSE get("target").s,
                      query |-> IF get("query").t = "undefined"
                                  THEN <<>> ELSE get("query").o,
                      headers |-> IF get("headers").t = "undefined"
                                    THEN <<>> ELSE get("headers").o,
                      body |-> get("body")]]

(***************************************************************************)
(* POST: building the upstream request                                     *)
(***************************************************************************)
PublicBaseUrl == "https://api.pi42.com"
PrivateBaseUrl == "https://fapi.pi42.com"

\* resolveBaseUrl(target), of @/lib/pi42: one of two fixed base URLs.
resolveBaseUrl(target) ==
  IF target = "private" THEN PrivateBaseUrl ELSE PublicBaseUrl

\* new URL(path, baseUrl) for a path that starts with "/": a path that starts
\* with "//" is scheme-relative, and "//" alone names no host.
NewURL(path, baseUrl) ==
  IF path = "//"
    THEN [threw |-> TRUE, error |-> Err("TypeError", "Invalid URL")]
    ELSE [threw |-> FALSE,
          value |-> [origin |-> baseUrl, pathname |-> path, search |-> <<>>]]

\* String(value) of a string, number or boolean.
String(v) ==
  CASE v.t = "string" -> v.s
    [] v.t = "number" -> ToString(v.n)
    [] v.t = "boolean" -> IF v.b THEN "true" ELSE "false"

\* The query entries kept by `if (!value) return`: 0 and false are dropped
\* with the empty string.
SearchParamsTruthy(query) ==
  LET kept == {k \in DOMAIN query :
                 /\ ~(query[k].t = "string" /\ query[k].s = "")
                 /\ ~(query[k].t = "number" /\ query[k].n = 0)
                 /\ ~(query[k].t = "boolean" /\ ~query[k].b)}
  IN  [k \in kept |-> String(query[k])]

\* The query entries the forEach sets on url.searchParams.
SearchParams(query) ==
  LET kept == {k \in DOMAIN query : ~(query[k].t = "string" /\ query[k].s = "")}
  IN  [k \in kept |-> String(query[k])]

\* Headers lower-cases the names it is given.
LowerCase(name) ==
  CASE name = "Accept" -> "accept"
    [] name = "Content-Type" -> "content-type"
    [] name = "X-Api-Key" -> "x-api-key"
    [] OTHER -> name

DefaultHeaders ==
  [k \in {"accept", "content-type"} |-> "application/json"]

\* forwardHeaders: the defaults, then every caller header with a truthy value.
ForwardHeaders(headers) ==
  LET kept == {k \in DOMAIN headers : headers[k].s # ""}
      names == {LowerCase(k) : k \in kept}
      given(n) == CHOOSE k \in kept : LowerCase(k) = n
  IN  [n \in DOMAIN DefaultHeaders \cup names |->
         IF n \in names THEN headers[given(n)].s ELSE DefaultHeaders[n]]

\* JSON.stringify(body, null, 0) of the request objects of this model.
JSONstringify(v) ==
  CASE v.t = "object" /\ DOMAIN v.o = {} -> "{}"
    [] v.t = "object" /\ DOMAIN v.o = {"pair"} ->
         "{\"pair\":\"" \o v.o["pair"].s \o "\"}"
    [] OTHER -> "[object]"

\* forwardInit, lines 51-60.
ForwardInit(data) ==
  [method |-> data.method,
   headers |-> ForwardHeaders(data.headers),
   cache |-> "no-store",
   hasBody |-> data.body.t # "undefined",
   body |-> IF data.body.t = "undefined" THEN ""
            ELSE IF data.body.t = "string" THEN data.body.s
            ELSE JSONstringify(data.body)]

(***************************************************************************)
(* POST: the upstream call and the reply                                   *)
(***************************************************************************)
NullBodyStatus == {101, 103, 204, 205, 304}

StatusText(status) ==
  CASE status = 200 -> "OK"
    [] status = 204 -> "No Content"
    [] status = 304 -> "Not Modified"
    [] status = 404 -> "Not Found"
    [] status = 500 -> "Internal Server Error"
    [] OTHER -> ""

\* JSON.parse(text) on the body texts of this model.
JSONparse(t) ==
  CASE t = "{\"ok\":true}" ->
         [threw |-> FALSE, value |-> JObj([ok |-> JBool(TRUE)])]
    [] t = "\"closed\"" -> [threw |-> FALSE, value |-> JStr("closed")]
    [] t = "null" -> [threw |-> FALSE, value |-> JNull]
    [] OTHER ->
         [threw |-> TRUE,
          error |-> Err("SyntaxError", "Unexpected token in JSON")]

\* Lines 66-70: the body text parsed, null when empty, the text itself when
\* it is no JSON.
ParseData(t) ==
  IF t = "" THEN JNull
  ELSE IF JSONparse(t).threw THEN JStr(t)
  ELSE JSONparse(t).value

\* NextResponse.json(body, {status}): Response.json refuses a status outside
\* 200..599 (RangeError) and a body with a null body status (TypeError).
NextResponseJson(body, status) ==
  IF status < 200 \/ status > 599
    THEN [threw |-> TRUE,
          error |-> Err("RangeError",
                        "init[\"status\"] must be in the range of 200 to 599, inclusive.")]
  ELSE IF status \in NullBodyStatus
    THEN [threw |-> TRUE,
          error |-> Err("TypeError",
                        "Response constructor: Invalid response status code "
                          \o ToString(status))]
  ELSE [threw |-> FALSE, value |-> [status |-> status, body |-> body]]

NoResult == [status |-> 0, body |-> [pending |-> TRUE]]

\* The catch clause, lines 80-85, rethrowing instead of answering.
CatchRethrows(error) == [result |-> NoResult, thrown |-> TRUE]

\* The catch clause, lines 80-85.
Catch(error) ==
  [result |-> NextResponseJson([error |-> error.message], 500).value,
   thrown |-> FALSE]

\* Lines 25-30.
InvalidPayload(issues) ==
  NextResponseJson([error |-> "Invalid request payload", issues |-> issues],
                   400)

\* Lines 72-79.
Mirror(resp, data) ==
  NextResponseJson([status |-> resp.status,
                    statusText |-> resp.statusText,
                    data |-> data],
                   resp.status)

(***************************************************************************)
(* POST: the request bodies and upstream behaviours considered             *)
(***************************************************************************)
\* A request object with the given fields; an undefined field is left out.
ReqObject(m, p, tg, q, h, b) ==
  LET all == [method |-> m, path |-> p, target |-> tg,
              query |-> q, headers |-> h, body |-> b]
      present == {f \in DOMAIN all : all[f].t # "undefined"}
  IN  JObj([f \in present |-> all[f]])

MethodsIn == {JStr("GET"), JStr("POST"), JStr("TRACE"), JUndef}
PathsIn == {JStr("/v1/market/klines"), JStr("v1/market/klines"), JStr("//")}
TargetsIn == {JUndef, JStr("public"), JStr("private"), JStr("internal")}
QueriesIn ==
  {JUndef,
   JObj([pair |-> JStr("BTCINR"), limit |-> JNum(0),
         live |-> JBool(FALSE), cursor |-> JStr("")]),
   JObj([pair |-> JNull])}
HeadersIn ==
  {JUndef,
   JObj("Accept" :> JStr("") @@ "X-Api-Key" :> JStr("k1")),
   JObj([Accept |-> JStr("text/plain")]),
   JObj([Accept |-> JNum(1)])}
BodiesIn == {JUndef, JStr("pair=BTCINR"), JObj([pair |-> JStr("BTCINR")]), JNum(7)}

\* What a client can send: text that is no JSON document, or a JSON value.
RawBodies ==
  {[kind |-> "malformed", text |-> "{\"method\":"]}
  \cup {[kind |-> "json", value |-> v] : v \in {JNull, JNum(42), JArr(<<>>)}}
  \cup {[kind |-> "json", value |-> ReqObject(m, p, tg, q, h, b)] :
          m \in MethodsIn, p \in PathsIn, tg \in TargetsIn,
          q \in QueriesIn, h \in HeadersIn, b \in BodiesIn}

\* await req.json()
ReqJson(r) ==
  IF r.kind = "malformed"
    THEN [threw |-> TRUE,
          error |-> Err("SyntaxError", "Unexpected end of JSON input")]
    ELSE [threw |-> FALSE, value |-> r.value]

UpstreamStatuses == {200, 204, 304, 404, 500}
UpstreamTexts == {"", "{\"ok\":true}", "\"closed\"", "<html>Bad Gateway</html>"}

\* The settlements of fetch(url, forwardInit): a GET with a body is refused,
\* the network may fail, or the exchange answers; a response with a null body
\* status carries no body.
FetchOutcomes(fwd) ==
  IF fwd.init.method = "GET" /\ fwd.init.hasBody
    THEN {[kind |-> "rejected",
           error |-> Err("TypeError",
                         "Request with GET/HEAD method cannot have body.")]}
    ELSE {[kind |-> "rejected", error |-> Err("TypeError", "fetch failed")]}
         \cup UNION {{[kind |-> "response", status |-> st,
                        statusText |-> StatusText(st), body |-> b] :
                         b \in IF st \in NullBodyStatus
                                 THEN {""} ELSE UpstreamTexts} :
                       st \in UpstreamStatuses}

\* The settlements of response.text(): the body, or a failure while reading.
TextOutcomes(resp) ==
  {[kind |-> "resolved", value |-> resp.body],
   [kind |-> "rejected", error |-> Err("TypeError", "terminated")]}

Pending == [kind |-> "pending"]

(***************************************************************************)
(* POST, lines 20-86                                                       *)
(***************************************************************************)
ProxyIdle ==
  /\ phase = "idle"
  /\ raw = Pending
  /\ forward = Pending
  /\ response = Pending
  /\ text = Pending
  /\ result = NoResult
  /\ thrown = FALSE

\* Leaves POST with the outcome of a return or of the catch clause.
Finish(outcome) ==
  /\ phase' = "done"
  /\ result' = outcome.result
  /\ thrown' = outcome.thrown

Return(r) == [result |-> r, thrown |-> FALSE]

\* Lines 22-62: the body is read and validated and the upstream request built
\* and sent.
PostReceive(r) ==
  /\ phase = "idle"
  /\ raw' = r
  /\ UNCHANGED <<stateVars, dashVars, feedVars, pageVars>>
  /\ UNCHANGED <<response, text>>
  /\ LET json == ReqJson(r)
     IN  IF json.threw
           THEN Finish(Catch(json.error)) /\ UNCHANGED forward
         ELSE LET parsed == SafeParse(json.value)
              IN  IF ~parsed.success
                    THEN /\ Finish(Return(InvalidPayload(parsed.issues).value))
                         /\ UNCHANGED forward
                  ELSE LET url == NewURL(parsed.data.path,
                                         resolveBaseUrl(parsed.data.target))
                       IN  IF url.threw
                             THEN Finish(Catch(url.error)) /\ UNCHANGED forward
                             ELSE /\ forward' =
                                       [kind |-> "sent",
                                        url |-> [url.value EXCEPT !.search =
                                                   SearchParams(parsed.data.query)],
                                        init |-> ForwardInit(parsed.data)]
                                  /\ phase' = "fetching"
                                  /\ UNCHANGED <<result, thrown>>

\* Line 62: fetch settles.
PostFetchSettled(o) ==
  /\ phase = "fetching"
  /\ response' = o
  /\ UNCHANGED <<raw, forward, text>>
  /\ UNCHANGED <<stateVars, dashVars, feedVars, pageVars>>
  /\ IF o.kind = "rejected"
       THEN Finish(Catch(o.error))
       ELSE phase' = "reading" /\ UNCHANGED <<result, thrown>>

\* Lines 63-79: the body text is read, parsed and mirrored.
PostTextSettled(o) ==
  /\ phase = "reading"
  /\ text' = o
  /\ UNCHANGED <<raw, forward, response>>
  /\ UNCHANGED <<stateVars, dashVars, feedVars, pageVars>>
  /\ IF o.kind = "rejected"
       THEN Finish(Catch(o.error))
       ELSE LET reply == Mirror(response, ParseData(o.value))
            IN  IF reply.threw
                  THEN Finish(Catch(reply.error))
                  ELSE Finish(Return(reply.value))

\* The reply is out; the route handles the next request.
PostDone ==
  /\ phase = "done"
  /\ phase' = "idle"
  /\ raw' = Pending
  /\ forward' = Pending
  /\ response' = Pending
  /\ text' = Pending
  /\ result' = NoResult
  /\ thrown' = FALSE
  /\ UNCHANGED <<stateVars, dashVars, feedVars, pageVars>>

ProxyNext ==
  \/ \E r \in RawBodies : PostReceive(r)
  \/ phase = "fetching" /\ \E o \in FetchOutcomes(forward) : PostFetchSettled(o)
  \/ phase = "reading" /\ \E o \in TextOutcomes(response) : PostTextSettled(o)
  \/ PostDone

(***************************************************************************)
(* Dashboard: props and data                                               *)
(***************************************************************************)
\* The contracts prop: name and depthGrouping of each contract.
ContractList ==
  <<[name |-> "BTCINR", depthGrouping |-> <<"0.5 ", "1">>],
    [name |-> "ETHINR", depthGrouping |-> <<>>]>>

\* intervalOptions, of which the model offers two.
IntervalOptions == {"1h", "5m"}

Null == [via |-> "null"]

\* A ticker, depth snapshot or trade of symbol s: `via` says whether the page
\* load ("ssr"), a bundle fetch ("rest") or the feed ("ws") brought it, and n
\* which fetch or event.
Item(s, via, n) == [s |-> s, via |-> via, n |-> n]

\* A candle of symbol s and interval i that starts at startTime.
Kline(s, i, via, n, startTime) ==
  [s |-> s, i |-> i, via |-> via, n |-> n, startTime |-> startTime]

\* array.slice(-n), n > 0: the last n entries.
SliceLast(a, n) ==
  IF Len(a) <= n THEN a ELSE SubSeq(a, Len(a) - n + 1, Len(a))

\* What the exchange returns to fetch f: nTrades trades, numbered from
\* 1000 * f + 1, and candles 1 to nKlines.
RestTrades(s, f, nTrades) == [j \in 1..nTrades |-> Item(s, "rest", 1000 * f + j)]
RestKlines(s, i, f, nKlines) == [j \in 1..nKlines |-> Kline(s, i, "rest", f, j)]

\* The snapshot the page hands over, lines 175-193: its trades and candles.
SnapshotTrades(s, count) == [j \in 1..count |-> Item(s, "ssr", j)]
SnapshotKlines(s, i, count) == [j \in 1..count |-> Kline(s, i, "ssr", 0, j)]

BundleTradeLimit == 120
BundleKlineLimit == 400

\* What proxyRequest returns for the trades call of fetch f: the exchange's
\* reply with the trades under `data`.
TradesReply(s, f, nTrades) == [data |-> RestTrades(s, f, nTrades)]

\* A reply without `data`.
NoData == [success |-> TRUE]

\* trades?.data?.slice(-120) with the first 120 kept instead of the last.
fetchedTradesFirst(reply) ==
  IF reply # Null /\ "data" \in DOMAIN reply
    THEN SubSeq(reply.data, 1, IF Len(reply.data) < BundleTradeLimit
                                 THEN Len(reply.data) ELSE BundleTradeLimit)
    ELSE <<>>

\* trades?.data?.slice(-120) ?? [], line 351.
fetchedTrades(reply) ==
  IF reply # Null /\ "data" \in DOMAIN reply
    THEN SliceLast(reply.data, BundleTradeLimit)
    ELSE <<>>

\* fetchMarketBundle's result for fetch f, lines 348-353, when the trades
\* call returns `reply` and the exchange nKlines candles.
BundleOf(s, i, f, reply, nKlines) ==
  [ticker |-> Item(s, "rest", f),
   depth |-> Item(s, "rest", f),
   trades |-> fetchedTrades(reply),
   klines |-> RestKlines(s, i, f, nKlines)]

\* The same when the exchange returns nTrades trades.
Bundle(s, i, f, nTrades, nKlines) ==
  BundleOf(s, i, f, TradesReply(s, f, nTrades), nKlines)

\* The bundles of the model hold two trades and two candles.
MarketBundle(s, i, f) == Bundle(s, i, f, 2, 2)

\* The sub-requests of a bundle: ticker, depth, trades, klines.
SubRequests == 4

\* A promise over the sub-requests: how many of them it still waits for,
\* whether one was rejected, and its state.
NewPromise == [waiting |-> SubRequests, rejected |-> FALSE, state |-> "pending"]

\* Promise.all that waits for every sub-request and resolves even when some
\* were rejected.
PromiseAllSettled(p, good) ==
  [waiting |-> p.waiting - 1,
   rejected |-> p.rejected \/ ~good,
   state |-> IF p.waiting = 1 THEN "resolved" ELSE "pending"]

\* Promise.all over the four proxyRequest calls, lines 328-346, when one more
\* of them is fulfilled (good) or rejected: the first rejection rejects it and
\* it waits no longer, the last fulfilment resolves it.
PromiseAll(p, good) ==
  IF good
    THEN [waiting |-> p.waiting - 1,
          rejected |-> p.rejected,
          state |-> IF p.waiting = 1 THEN "resolved" ELSE "pending"]
    ELSE [waiting |-> 0, rejected |-> TRUE, state |-> "rejected"]

\* The .then callback without its `cancelled` test.
ThenAlwaysApplies(cancelled, bundle, current) ==
  <<bundle.ticker, bundle.depth, bundle.trades, bundle.klines>>

\* The .then callback, lines 1130-1136: the new <<ticker, depth, trades, klines>>.
ThenCallback(cancelled, bundle, current) ==
  IF cancelled THEN current
  ELSE <<bundle.ticker, bundle.depth, bundle.trades, bundle.klines>>

\* The .finally callback without its `cancelled` test.
FinallyAlwaysClears(cancelled, current) == FALSE

\* The .finally callback, lines 1140-1142: the new `loading`.
FinallyCallback(cancelled, current) ==
  IF cancelled THEN current ELSE FALSE

(***************************************************************************)
(* Dashboard: the realtime handlers                                        *)
(***************************************************************************)
RealtimeTradeLimit == 180
RealtimeKlineLimit == 400

\* A handler that keeps what it has once it has something.
handleKeepsFirst(prev, payload) == IF prev = Null THEN payload ELSE prev

\* handleDepth and handleTicker, lines 1183-1191.
handleDepth(prev, payload) == payload
handleTicker(prev, payload) == payload

\* handleTrade, lines 1186-1188.
handleTrade(prev, payload) ==
  Append(SliceLast(prev, RealtimeTradeLimit), payload)

\* next.findIndex(item => item.startTime === k.startTime): 0 for -1.
FindIndex(next, k) ==
  LET hits == {j \in 1..Len(next) : next[j].startTime = k.startTime}
  IN  IF hits = {} THEN 0
      ELSE CHOOSE j \in hits : \A h \in hits : j <= h

\* handleKline that always pushes.
handleKlineAppends(prev, payload) ==
  IF "k" \notin DOMAIN payload THEN prev
  ELSE SliceLast(Append(prev, payload.k), RealtimeKlineLimit)

\* handleKline without the slice of its last line.
handleKlineUncut(prev, payload) ==
  IF "k" \notin DOMAIN payload THEN prev
  ELSE LET index == FindIndex(prev, payload.k)
       IN  IF index > 0
             THEN [prev EXCEPT ![index] = payload.k]
             ELSE Append(prev, payload.k)

\* handleKline, lines 1192-1204.
handleKline(prev, payload) ==
  IF "k" \notin DOMAIN payload THEN prev
  ELSE LET index == FindIndex(prev, payload.k)
           next == IF index > 0
                     THEN [prev EXCEPT ![index] = payload.k]
                     ELSE Append(prev, payload.k)
       IN  SliceLast(next, RealtimeKlineLimit)

(***************************************************************************)
(* Dashboard: what a render derives from props and state                   *)
(***************************************************************************)
NoContract == [name |-> "", depthGrouping |-> <<>>]

\* selectedContract, lines 1106-1109.
selectedContract ==
  LET hits == {j \in 1..Len(contracts) : contracts[j].name = selectedSymbol}
  IN  IF hits # {} THEN contracts[CHOOSE j \in hits : \A h \in hits : j <= h]
      ELSE IF Len(contracts) > 0 THEN contracts[1]
      ELSE NoContract

\* contractName, line 1123.
contractName == selectedContract.name

\* String.prototype.toLowerCase on the names of the model.
ToLowerCase(name) ==
  CASE name = "BTCINR" -> "btcinr"
    [] name = "ETHINR" -> "ethinr"
    [] OTHER -> name

\* .replace(/\s+/g, "") on the grouping values of the model.
StripWhitespace(v) ==
  CASE v = "0.5 " -> "0.5"
    [] OTHER -> v

\* The first grouping value as configured, white space and all.
DepthGroupingUnstripped(contract) ==
  IF Len(contract.depthGrouping) > 0 THEN contract.depthGrouping[1] ELSE "0.1"

\* depthGroupingValue, lines 1166-1167.
DepthGroupingValue(contract) ==
  IF Len(contract.depthGrouping) > 0
    THEN StripWhitespace(contract.depthGrouping[1])
    ELSE "0.1"

\* topics, lines 1174-1179.
Topics(contract, ivl) ==
  LET lowerSymbol == ToLowerCase(contract.name)
  IN  <<lowerSymbol \o "@depth_" \o DepthGroupingValue(contract),
        lowerSymbol \o "@aggTrade",
        lowerSymbol \o "@ticker",
        lowerSymbol \o "@kline_" \o ivl>>

\* The feed's event names, in the order of Topics.
FeedEvents == <<"depthUpdate", "aggTrade", "24hrTicker", "kline">>

(***************************************************************************)
(* Dashboard: the calls made on the socket                                 *)
(***************************************************************************)
OpIo(n) == [op |-> "io", socket |-> n]
OpDisconnect(n) == [op |-> "disconnect", socket |-> n]
OpEmit(ev, topics) == [op |-> "emit", ev |-> ev, params |-> topics]
OpOn(ev, h) == [op |-> "on", ev |-> ev, h |-> h]
OpOff(ev, h) == [op |-> "off", ev |-> ev, h |-> h]

\* How often log emits ev with `topic` among its params.
Emits(log, ev, topic) ==
  Cardinality({j \in 1..Len(log) :
                 /\ log[j].op = "emit"
                 /\ log[j].ev = ev
                 /\ \E x \in 1..Len(log[j].params) : log[j].params[x] = topic})

\* How often `topic` was subscribed and not unsubscribed since.
SubscribedIn(log, topic) ==
  Emits(log, "subscribe", topic) - Emits(log, "unsubscribe", topic)

\* How often log calls op ("on" or "off") for event ev with handler h.
Calls(log, op, ev, h) ==
  Cardinality({j \in 1..Len(log) :
                 log[j].op = op /\ log[j].ev = ev /\ log[j].h = h})

\* The handlers registered for event ev and not removed since.
ListenersIn(log, ev) ==
  LET hs == {log[j].h : j \in {x \in 1..Len(log) :
                                 log[x].op \in {"on", "off"} /\ log[x].ev = ev}}
  IN  {h \in hs : Calls(log, "on", ev, h) > Calls(log, "off", ev, h)}

Subscribed(topic) == SubscribedIn(ops, topic)
Listeners(ev) == ListenersIn(ops, ev)

\* The number of the next run of the subscription effect.
NextRun ==
  1 + Cardinality({j \in 1..Len(ops) :
                     ops[j].op = "emit" /\ ops[j].ev = "subscribe"})

\* The socket effect with the `connect` listener only.
SocketEffectConnectOnly(n) == <<OpIo(n), OpOn("connect", 0)>>

\* The socket effect, lines 1149-1158.
SocketEffectOps(n) ==
  <<OpIo(n), OpOn("connect", 0), OpOn("disconnect", 0),
    OpOn("connect_error", 0)>>

\* The socket effect's cleanup, lines 1160-1163.
SocketCleanupOps(n) == <<OpDisconnect(n)>>

\* The subscription effect, lines 1170-1209, run number `run`.
SubscriptionEffectOps(ref, contract, ivl, run) ==
  IF ref = 0 \/ ToLowerCase(contract.name) = "" THEN <<>>
  ELSE <<OpEmit("subscribe", Topics(contract, ivl))>>
       \o [j \in 1..4 |-> OpOn(FeedEvents[j], run)]

\* The cleanup that leaves the topics subscribed.
CleanupKeepsTopics(ref, contract, ivl, run) ==
  IF ref = 0 \/ ToLowerCase(contract.name) = "" THEN <<>>
  ELSE [j \in 1..4 |-> OpOff(FeedEvents[j], run)]

\* The cleanup that leaves the listeners attached.
CleanupKeepsListeners(ref, contract, ivl, run) ==
  IF ref = 0 \/ ToLowerCase(contract.name) = "" THEN <<>>
  ELSE <<OpEmit("unsubscribe", Topics(contract, ivl))>>

\* The cleanup that unsubscribes the kline topic alone.
CleanupKlineTopicOnly(ref, contract, ivl, run) ==
  IF ref = 0 \/ ToLowerCase(contract.name) = "" THEN <<>>
  ELSE <<OpEmit("unsubscribe", <<Topics(contract, ivl)[4]>>)>>
       \o [j \in 1..4 |-> OpOff(FeedEvents[j], run)]

\* The subscription effect's cleanup, lines 1211-1217, of run number `run`:
\* there is none when the effect returned early.
SubscriptionCleanupOps(ref, contract, ivl, run) ==
  IF ref = 0 \/ ToLowerCase(contract.name) = "" THEN <<>>
  ELSE <<OpEmit("unsubscribe", Topics(contract, ivl))>>
       \o [j \in 1..4 |-> OpOff(FeedEvents[j], run)]

(***************************************************************************)
(* Dashboard: bundle fetches                                               *)
(***************************************************************************)
\* The bundle effect, lines 1125-1129: a fetch starts unless there is no
\* contract.
StartFetch(fs, name, ivl) ==
  IF name = "" THEN fs
  ELSE Append(fs, [symbol |-> name, interval |-> ivl, cancelled |-> FALSE,
                   all |-> NewPromise])

\* The bundle effect's cleanup, lines 1144-1146, of the run that started the
\* latest fetch.
CancelLatest(fs, name) ==
  IF name = "" \/ fs = <<>> THEN fs
  ELSE [fs EXCEPT ![Len(fs)].cancelled = TRUE]

\* The fetch started for the selection on screen: the last one started.
LatestFetch == fetches[Len(fetches)]

(***************************************************************************)
(* Dashboard: construction                                                 *)
(***************************************************************************)
MaxSelections == 2
MaxReselections == 1
MaxConnects == 2
MaxEvents == 2
MaxWire == 1
FeedSelections == 1
BundleSelections == 1
MaxQuoteEvents == 8
MaxTrades == 200
MaxKlineEvents == 3
MaxCandleEvents == 1

\* Dashboard's useState initialisers, lines 1094-1104. The page hands over the
\* contract list (or none) and the snapshot it fetched for the first contract
\* (or, when that fetch failed, nulls and empty lists).
DashboardInit ==
  /\ lifecycle = "rendered"
  /\ contracts \in {ContractList, <<>>}
  /\ selectedSymbol = IF Len(contracts) > 0 THEN contracts[1].name ELSE ""
  /\ interval = "1h"
  /\ \E loaded \in BOOLEAN :
       IF loaded /\ Len(contracts) > 0
         THEN /\ ticker = Item(selectedSymbol, "ssr", 0)
              /\ depth = Item(selectedSymbol, "ssr", 0)
              /\ trades = SnapshotTrades(selectedSymbol, 1)
              /\ klines = SnapshotKlines(selectedSymbol, "1h", 2)
         ELSE /\ ticker = Null
              /\ depth = Null
              /\ trades = <<>>
              /\ klines = <<>>
  /\ loading = FALSE
  /\ socketConnected = FALSE
  /\ socketRef = 0
  /\ transport = "none"
  /\ ops = <<>>
  /\ fetches = <<>>
  /\ wire = <<>>
  /\ last = Null
  /\ nSelections = 0
  /\ nReselections = 0
  /\ nEvents = 0
  /\ nConnects = 0

(***************************************************************************)
(* Dashboard: lifecycle and selection                                      *)
(***************************************************************************)
\* The first commit: the bundle effect, the socket effect and the
\* subscription effect run in this order.
Mount ==
  /\ lifecycle = "rendered"
  /\ lifecycle' = "mounted"
  /\ fetches' = StartFetch(fetches, contractName, interval)
  /\ socketRef' = 1
  /\ transport' = "connecting"
  /\ ops' = ops \o SocketEffectOps(1)
                \o SubscriptionEffectOps(1, selectedContract, interval, 1)
  /\ UNCHANGED <<contracts, selectedSymbol, interval, loading, socketConnected,
                 wire, nSelections, nReselections, nConnects>>
  /\ UNCHANGED <<stateVars, feedVars, proxyVars, pageVars>>

\* The commit after selectedSymbol or interval changed: the cleanups of the
\* bundle effect and of the subscription effect, then the two effects.
Commit(symbol, ivl) ==
  LET before == selectedContract
      hits == {j \in 1..Len(contracts) : contracts[j].name = symbol}
      after == IF hits # {} THEN contracts[CHOOSE j \in hits : TRUE]
               ELSE contracts[1]
  IN  /\ fetches' = StartFetch(CancelLatest(fetches, before.name),
                               after.name, ivl)
      /\ ops' = ops \o SubscriptionCleanupOps(socketRef, before, interval,
                                              NextRun - 1)
                    \o SubscriptionEffectOps(socketRef, after, ivl, NextRun)

\* handleSymbolSelect without its early return: the setters run, and React
\* keeps a state that is set to the value it has.
HandleSymbolSelectNoReturn(symbol) ==
  /\ lifecycle = "mounted"
  /\ loading' = TRUE
  /\ IF symbol = selectedSymbol
       THEN /\ nReselections < MaxReselections
            /\ nReselections' = nReselections + 1
            /\ UNCHANGED <<selectedSymbol, fetches, ops, nSelections>>
       ELSE /\ nSelections < MaxSelections
            /\ selectedSymbol' = symbol
            /\ Commit(symbol, interval)
            /\ nSelections' = nSelections + 1
            /\ UNCHANGED nReselections
  /\ UNCHANGED <<lifecycle, contracts, interval, socketConnected, socketRef,
                 transport, wire, nConnects>>
  /\ UNCHANGED <<stateVars, feedVars, proxyVars, pageVars>>

\* handleSymbolSelect, lines 1111-1115, and the commit it causes. A call with
\* the symbol already selected returns at once.
HandleSymbolSelect(symbol) ==
  /\ lifecycle = "mounted"
  /\ IF symbol = selectedSymbol
       THEN /\ nReselections < MaxReselections
            /\ nReselections' = nReselections + 1
            /\ UNCHANGED <<selectedSymbol, loading, fetches, ops, nSelections>>
       ELSE /\ nSelections < MaxSelections
            /\ loading' = TRUE
            /\ selectedSymbol' = symbol
            /\ Commit(symbol, interval)
            /\ nSelections' = nSelections + 1
            /\ UNCHANGED nReselections
  /\ UNCHANGED <<lifecycle, contracts, interval, socketConnected, socketRef,
                 transport, wire, nConnects>>
  /\ UNCHANGED <<stateVars, feedVars, proxyVars, pageVars>>

\* handleIntervalChange, lines 1117-1121, and the commit it causes.
HandleIntervalChange(value) ==
  /\ lifecycle = "mounted"
  /\ Len(contracts) > 0
  /\ IF value = interval
       THEN /\ nReselections < MaxReselections
            /\ nReselections' = nReselections + 1
            /\ UNCHANGED <<interval, loading, fetches, ops, nSelections>>
       ELSE /\ nSelections < MaxSelections
            /\ loading' = TRUE
            /\ interval' = value
            /\ Commit(selectedSymbol, value)
            /\ nSelections' = nSelections + 1
            /\ UNCHANGED nReselections
  /\ UNCHANGED <<lifecycle, contracts, selectedSymbol, socketConnected,
                 socketRef, transport, wire, nConnects>>
  /\ UNCHANGED <<stateVars, feedVars, proxyVars, pageVars>>

\* The component is disposed: the three cleanups run in the effects' order.
\* socket.disconnect() on an open connection fires `disconnect`.
Unmount ==
  /\ lifecycle = "mounted"
  /\ lifecycle' = "unmounted"
  /\ fetches' = CancelLatest(fetches, contractName)
  /\ socketRef' = 0
  /\ transport' = "closed"
  /\ socketConnected' =
       IF transport = "open" /\ Listeners("disconnect") # {}
         THEN FALSE ELSE socketConnected
  /\ wire' = <<>>
  /\ ops' = ops \o SocketCleanupOps(socketRef)
                \o SubscriptionCleanupOps(socketRef, selectedContract,
                                          interval, NextRun - 1)
  /\ UNCHANGED <<contracts, selectedSymbol, interval, loading,
                 nSelections, nReselections,
                 nConnects>>
  /\ UNCHANGED <<stateVars, feedVars, proxyVars, pageVars>>

(***************************************************************************)
(* Dashboard: a sub-request of a bundle fetch settles                      *)
(***************************************************************************)
\* One of the pending sub-requests of fetch f is fulfilled (good) or rejected;
\* when that settles Promise.all, the .then callback (with `bundle`, what
\* fetchMarketBundle returns) or the .catch callback and the .finally
\* callback run. Once Promise.all is settled the remaining
\* sub-requests have nobody waiting for them.
SubRequestSettlesWith(f, good, bundle) ==
  /\ lifecycle # "rendered"
  /\ fetches[f].all.state = "pending"
  /\ LET all == PromiseAll(fetches[f].all, good)
         state == all.state
     IN  /\ fetches' = [fetches EXCEPT ![f].all = all]
         /\ LET next == IF state = "resolved"
                          THEN ThenCallback(fetches[f].cancelled, bundle,
                                            <<ticker, depth, trades, klines>>)
                          ELSE <<ticker, depth, trades, klines>>
            IN  /\ ticker' = next[1]
                /\ depth' = next[2]
                /\ trades' = next[3]
                /\ klines' = next[4]
         /\ loading' =
              IF state = "pending" THEN loading
              ELSE FinallyCallback(fetches[f].cancelled, loading)
  /\ UNCHANGED <<lifecycle, contracts, selectedSymbol, interval,
                 socketConnected, socketRef, transport, ops, wire,
                 nSelections, nReselections, nConnects>>
  /\ UNCHANGED <<feedVars, proxyVars, pageVars>>

\* The same with the bundle of the model.
SubRequestSettles(f, good) ==
  /\ f \in 1..Len(fetches)
  /\ SubRequestSettlesWith(f, good, MarketBundle(fetches[f].symbol,
                                                fetches[f].interval, f))

(***************************************************************************)
(* Dashboard: the connection                                               *)
(***************************************************************************)
\* The transport connects (or reconnects): `connect`, line 1156.
Connect ==
  /\ transport = "connecting"
  /\ nConnects < MaxConnects
  /\ transport' = "open"
  /\ nConnects' = nConnects + 1
  /\ socketConnected' = IF Listeners("connect") # {} THEN TRUE ELSE socketConnected
  /\ UNCHANGED <<lifecycle, contracts, selectedSymbol, interval, loading,
                 socketRef, ops, fetches, wire, nSelections, nReselections>>
  /\ UNCHANGED <<stateVars, feedVars, proxyVars, pageVars>>

\* The connection drops and the transport starts to reconnect: `disconnect`,
\* line 1157. What was in flight is lost.
Disconnect ==
  /\ transport = "open"
  /\ transport' = "connecting"
  /\ socketConnected' =
       IF Listeners("disconnect") # {} THEN FALSE ELSE socketConnected
  /\ wire' = <<>>
  /\ UNCHANGED <<lifecycle, contracts, selectedSymbol, interval, loading,
                 socketRef, ops, fetches,
                 nSelections, nReselections, nConnects>>
  /\ UNCHANGED <<stateVars, feedVars, proxyVars, pageVars>>

\* A connection attempt fails: `connect_error`, line 1158.
ConnectError ==
  /\ transport = "connecting"
  /\ socketConnected' =
       IF Listeners("connect_error") # {} THEN FALSE ELSE socketConnected
  /\ UNCHANGED <<lifecycle, contracts, selectedSymbol, interval, loading,
                 socketRef, transport, ops, fetches, wire,
                 nSelections, nReselections,
                 nConnects>>
  /\ UNCHANGED <<stateVars, feedVars, proxyVars, pageVars>>

(***************************************************************************)
(* Dashboard: the feed                                                     *)
(***************************************************************************)
\* The start times a kline event of the model carries: those of the first
\* and of the last candle held, and one that no candle held has.
StartTimes(held) ==
  LET times == {held[j].startTime : j \in 1..Len(held)}
      top == IF times = {} THEN 0 ELSE CHOOSE t \in times : \A u \in times : u <= t
  IN  {top + 1} \cup {held[j].startTime : j \in {1, Len(held)} \cap 1..Len(held)}

\* The payloads the feed sends with event number e for a topic of contract c
\* and interval ivl: a kline event carries a candle, or no `k` at all.
Payloads(e, c, ivl, n) ==
  IF FeedEvents[e] = "kline"
    THEN {[k |-> Kline(c.name, ivl, "ws", n, st)] : st \in StartTimes(klines)}
         \cup {[s |-> c.name, via |-> "ws", n |-> n]}
    ELSE {Item(c.name, "ws", n)}

\* The feed sends an event for a topic that is subscribed.
FeedSend(e, j, ivl) ==
  /\ lifecycle = "mounted"
  /\ transport = "open"
  /\ Len(wire) < MaxWire
  /\ j \in 1..Len(contracts)
  /\ Subscribed(Topics(contracts[j], ivl)[e]) > 0
  /\ \E payload \in Payloads(e, contracts[j], ivl, nEvents + 1) :
       wire' = Append(wire, [ev |-> FeedEvents[e], payload |-> payload])
  /\ nEvents' = nEvents + 1
  /\ UNCHANGED <<lifecycle, contracts, selectedSymbol, interval, loading,
                 socketConnected, socketRef, transport, ops, fetches,
                 nSelections, nReselections, nConnects>>
  /\ UNCHANGED <<stateVars, last, proxyVars, pageVars>>

\* The state after every handler in `count` registered handlers of event ev
\* ran on payload.
RECURSIVE Dispatch(_, _, _, _)
Dispatch(ev, payload, count, state) ==
  IF count = 0 THEN state
  ELSE Dispatch(ev, payload, count - 1,
         CASE ev = "depthUpdate" ->
                [state EXCEPT ![2] = handleDepth(state[2], payload)]
           [] ev = "aggTrade" ->
                [state EXCEPT ![3] = handleTrade(state[3], payload)]
           [] ev = "24hrTicker" ->
                [state EXCEPT ![1] = handleTicker(state[1], payload)]
           [] ev = "kline" ->
                [state EXCEPT ![4] = handleKline(state[4], payload)])

\* The socket dispatches the oldest event in flight to the handlers
\* registered for it.
FeedDeliver ==
  /\ transport = "open"
  /\ wire # <<>>
  /\ wire' = Tail(wire)
  /\ last' = Head(wire)
  /\ LET next == Dispatch(Head(wire).ev, Head(wire).payload,
                          Cardinality(Listeners(Head(wire).ev)),
                          <<ticker, depth, trades, klines>>)
     IN  /\ ticker' = next[1]
         /\ depth' = next[2]
         /\ trades' = next[3]
         /\ klines' = next[4]
  /\ UNCHANGED <<lifecycle, contracts, selectedSymbol, interval, loading,
                 socketConnected, socketRef, transport, ops, fetches,
                 nSelections, nReselections, nConnects, nEvents>>
  /\ UNCHANGED <<proxyVars, pageVars>>

(***************************************************************************)
(* Numbers: IEEE 754 binary64, the arithmetic of JavaScript                *)
(*                                                                         *)
(* A finite number is [sign, m, e]: sign is 1 or -1, m its 53 significant  *)
(* bits, most significant first and starting with 1, and e the exponent of *)
(* the last bit, so that the value is sign * m * 2^e. Zero has no bits and *)
(* NaN has sign 0. Subnormal numbers and overflow lie outside the ranges   *)
(* of the model. Every operation computes the exact result and rounds it   *)
(* to nearest, ties to even.                                               *)
(***************************************************************************)
Precision == 53

Zero == [sign |-> 1, m |-> <<>>, e |-> 0]
NaN == [sign |-> 0, m |-> <<>>, e |-> 0]

Zeros(n) == [j \in 1..n |-> 0]

\* The front of a sequence of bits: all but the last.
Front(b) == SubSeq(b, 1, Len(b) - 1)

\* The arithmetic on bits works on this many bits in one step.
Chunk == 8

\* b without its leading zeros.
Strip(b) ==
  LET ones == {j \in 1..Len(b) : b[j] = 1}
  IN  IF ones = {} THEN <<>>
      ELSE SubSeq(b, CHOOSE j \in ones : \A k \in ones : j <= k, Len(b))

\* The last w bits of the natural number n.
Bits(n, w) == [j \in 1..w |-> (n \div 2^(w - j)) % 2]

\* The bits of the natural number n.
BitsOfNat(n) == Strip(Bits(n, 31))

\* The natural number of at most Chunk bits.
RECURSIVE Value(_)
Value(b) == IF b = <<>> THEN 0 ELSE 2 * Value(Front(b)) + b[Len(b)]

\* The last bits of b, at most Chunk of them, and the bits before them.
Low(b) == IF Len(b) <= Chunk THEN b ELSE SubSeq(b, Len(b) - Chunk + 1, Len(b))
High(b) == IF Len(b) <= Chunk THEN <<>> ELSE SubSeq(b, 1, Len(b) - Chunk)

\* b + 1; one bit longer when every bit of b is 1.
Inc(b) ==
  LET zeros == {j \in 1..Len(b) : b[j] = 0}
  IN  IF zeros = {} THEN <<1>> \o Zeros(Len(b))
      ELSE LET z == CHOOSE j \in zeros : \A k \in zeros : k <= j
           IN  [j \in 1..Len(b) |->
                  IF j < z THEN b[j] ELSE IF j = z THEN 1 ELSE 0]

\* b * c + carry for a natural number c < 2^22.
RECURSIVE MulSmall(_, _, _)
MulSmall(b, c, carry) ==
  IF b = <<>> THEN BitsOfNat(carry)
  ELSE LET t == Value(Low(b)) * c + carry
           w == Len(Low(b))
       IN  MulSmall(High(b), c, t \div 2^w) \o Bits(t, w)

\* a + b + carry for bit sequences of one length.
RECURSIVE AddBits(_, _, _)
AddBits(a, b, carry) ==
  IF a = <<>> THEN BitsOfNat(carry)
  ELSE LET t == Value(Low(a)) + Value(Low(b)) + carry
           w == Len(Low(a))
       IN  AddBits(High(a), High(b), t \div 2^w) \o Bits(t, w)

\* The number nearest to sign * b * 2^e, where b has no leading zero, and
\* `sticky` says that the exact value lies above b * 2^e by less than 2^e.
RoundBits(sign, b, e, sticky) ==
  IF b = <<>> THEN Zero
  ELSE IF Len(b) <= Precision
    THEN [sign |-> sign, m |-> b \o Zeros(Precision - Len(b)),
          e |-> e - (Precision - Len(b))]
  ELSE LET keep == SubSeq(b, 1, Precision)
           guard == b[Precision + 1]
           rest == sticky \/ \E j \in (Precision + 2)..Len(b) : b[j] = 1
           exp == e + (Len(b) - Precision)
           up == guard = 1 /\ (rest \/ keep[Precision] = 1)
           next == IF up THEN Inc(keep) ELSE keep
       IN  IF Len(next) > Precision
             THEN [sign |-> sign, m |-> Front(next), e |-> exp + 1]
             ELSE [sign |-> sign, m |-> next, e |-> exp]

\* Long division of the bits b by the natural number n < 2^22: the
\* quotient's bits q so far and the remainder r so far.
RECURSIVE IntDiv(_, _, _, _)
IntDiv(b, n, q, r) ==
  IF b = <<>> THEN [q |-> Strip(q), r |-> r]
  ELSE LET w == IF Len(b) < Chunk THEN Len(b) ELSE Chunk
           t == r * 2^w + Value(SubSeq(b, 1, w))
       IN  IntDiv(SubSeq(b, w + 1, Len(b)), n, q \o Bits(t \div n, w), t % n)

\* The division continued past the binary point, until the remainder is 0
\* or the quotient has two bits more than a number holds: `shift` counts the
\* bits after the point.
RECURSIVE Extend(_, _, _, _)
Extend(q, r, n, shift) ==
  IF r = 0 \/ Len(q) >= Precision + 2 THEN [q |-> q, r |-> r, shift |-> shift]
  ELSE LET t == r * 2^Chunk
       IN  Extend(Strip(q \o Bits(t \div n, Chunk)), t % n, n, shift + Chunk)

\* sign * b * 2^e / n, rounded.
DivRound(sign, b, e, n) ==
  LET whole == IntDiv(b, n, <<>>, 0)
      all == Extend(whole.q, whole.r, n, 0)
  IN  RoundBits(sign, all.q, e - all.shift, all.r # 0)

\* The number nearest to p / q, for natural numbers p and q > 0.
FromRational(sign, p, q) == DivRound(sign, BitsOfNat(p), 0, q)

\* The number n, an integer.
FromInt(n) ==
  IF n < 0 THEN FromRational(-1, -n, 1) ELSE FromRational(1, n, 1)

\* x * c for a natural number c > 0.
Times(x, c) ==
  IF x = NaN \/ x = Zero THEN x
  ELSE RoundBits(x.sign, Strip(MulSmall(x.m, c, 0)), x.e, FALSE)

\* x / n for a natural number n > 0.
DividedBy(x, n) ==
  IF x = NaN \/ x = Zero THEN x
  ELSE DivRound(x.sign, x.m, x.e, n)

\* x + y for numbers that are not negative.
Plus(x, y) ==
  IF x = NaN \/ y = NaN THEN NaN
  ELSE IF x = Zero THEN y
  ELSE IF y = Zero THEN x
  ELSE LET e == IF x.e < y.e THEN x.e ELSE y.e
           a == x.m \o Zeros(x.e - e)
           b == y.m \o Zeros(y.e - e)
           n == IF Len(a) > Len(b) THEN Len(a) ELSE Len(b)
       IN  RoundBits(1, Strip(AddBits(Zeros(n - Len(a)) \o a,
                                      Zeros(n - Len(b)) \o b, 0)), e, FALSE)

\* Math.abs.
Abs(x) == IF x = NaN \/ x = Zero THEN x ELSE [x EXCEPT !.sign = 1]

\* bits a < bits b, for sequences of one length.
BitsLess(a, b) ==
  \E j \in 1..Len(a) :
    /\ a[j] < b[j]
    /\ \A k \in 1..(j - 1) : a[k] = b[k]

\* x < y for numbers that are not negative and not NaN.
LessAbs(x, y) ==
  IF y = Zero THEN FALSE
  ELSE IF x = Zero THEN TRUE
  ELSE IF x.e # y.e THEN x.e < y.e
  ELSE BitsLess(x.m, y.m)

\* x < y for numbers that are not NaN.
Less(x, y) ==
  IF x.sign = 1 /\ y.sign = 1 THEN LessAbs(x, y)
  ELSE IF x.sign = -1 /\ y.sign = -1 THEN LessAbs(Abs(y), Abs(x))
  ELSE x.sign = -1 /\ (x # Zero \/ y # Zero)

(***************************************************************************)
(* Home: the combined contracts and their summary                          *)
(***************************************************************************)
DigitChars == "0123456789"

IsDigit(c) == \E d \in 0..9 : SubSeq(DigitChars, d + 1, d + 1) = c

DigitOf(c) == CHOOSE d \in 0..9 : SubSeq(DigitChars, d + 1, d + 1) = c

\* The digits of an unsigned decimal literal: p the digits read as one
\* natural number, k how many of them follow the point, n how many there are.
RECURSIVE Decimal(_, _, _, _, _)
Decimal(s, p, k, n, point) ==
  IF Len(s) = 0 THEN [ok |-> n > 0, p |-> p, k |-> k]
  ELSE LET c == SubSeq(s, 1, 1)
           rest == SubSeq(s, 2, Len(s))
       IN  IF IsDigit(c)
             THEN Decimal(rest, 10 * p + DigitOf(c),
                          IF point THEN k + 1 ELSE k, n + 1, point)
           ELSE IF c = "." /\ ~point THEN Decimal(rest, p, k, n, TRUE)
           ELSE [ok |-> FALSE, p |-> p, k |-> k]

\* Number(s) for a string s: the empty string is 0, a signed decimal literal
\* is the number nearest to it, and any other text is NaN. The texts of the
\* model hold no white space, no exponent and no "Infinity".
Number(s) ==
  IF Len(s) = 0 THEN Zero
  ELSE LET c == SubSeq(s, 1, 1)
           signed == c = "-" \/ c = "+"
           lit == Decimal(IF signed THEN SubSeq(s, 2, Len(s)) ELSE s,
                          0, 0, 0, FALSE)
       IN  IF lit.ok
             THEN FromRational(IF c = "-" THEN -1 ELSE 1, lit.p, 10^lit.k)
             ELSE NaN

\* toNumber, lines 86-91.
toNumber(value) ==
  IF value.t \in {"null", "undefined"} THEN JUndef
  ELSE IF value.t = "number" THEN value
  ELSE LET parsed == Number(value.s)
       IN  IF parsed # NaN THEN JNum(parsed) ELSE JUndef

\* a ?? b.
Coalesce(a, b) == IF a.t \in {"null", "undefined"} THEN b ELSE a

\* item.field ?? 0, as a number.
OrZero(v) == Coalesce(v, JNum(Zero)).n

\* The order in which Array.prototype.sort with the comparator
\* (a, b) => key(b) - key(a) leaves the first n items, for keys that are not
\* NaN: the difference is positive exactly when key(a) < key(b), and the sort
\* is stable, so the n-th item goes behind the items whose key is not less.
RECURSIVE Order(_, _)
Order(key, n) ==
  IF n = 0 THEN <<>>
  ELSE LET front == Order(key, n - 1)
           ahead == Cardinality({r \in 1..(n - 1) : ~Less(key[front[r]], key[n])})
       IN  SubSeq(front, 1, ahead) \o <<n>> \o SubSeq(front, ahead + 1, n - 1)

SortDescending(items, key) ==
  [r \in 1..Len(items) |-> items[Order(key, Len(items))[r]]]

\* Array.prototype.filter.
RECURSIVE Filter(_, _)
Filter(items, keep) ==
  IF items = <<>> THEN <<>>
  ELSE LET front == Filter(SubSeq(items, 1, Len(items) - 1), keep)
       IN  IF keep[Len(items)] THEN Append(front, items[Len(items)])
           ELSE front

\* reduce((acc, item) => acc + item, 0).
RECURSIVE Sum(_)
Sum(numbers) ==
  IF numbers = <<>> THEN Zero
  ELSE Plus(Sum(SubSeq(numbers, 1, Len(numbers) - 1)), numbers[Len(numbers)])

\* The contracts filtered and left in the order of the exchange metadata.
computeCombinedUnsorted(items) ==
  Filter(items, [j \in 1..Len(items) |-> items[j].marketStats.t = "object"])

\* computeCombinedContracts, lines 93-99.
computeCombinedContracts(items) ==
  LET kept == Filter(items, [j \in 1..Len(items) |->
                               items[j].marketStats.t = "object"])
  IN  SortDescending(kept, [j \in 1..Len(kept) |-> OrZero(kept[j].quoteVolume)])

\* The top movers of summarise, lines 118-125.
TopMoversCount == 6

\* The movers sorted by their change instead of its magnitude.
topMoversSigned(items) ==
  LET numeric == Filter(items, [j \in 1..Len(items) |->
                                  items[j].priceChangePercent.t = "number"])
      sorted == SortDescending(numeric,
                  [j \in 1..Len(numeric) |->
                     OrZero(numeric[j].priceChangePercent)])
  IN  SubSeq(sorted, 1, IF Len(sorted) < TopMoversCount
                          THEN Len(sorted) ELSE TopMoversCount)

topMovers(items) ==
  LET numeric == Filter(items, [j \in 1..Len(items) |->
                                  items[j].priceChangePercent.t = "number"])
      sorted == SortDescending(numeric,
                  [j \in 1..Len(numeric) |->
                     Abs(OrZero(numeric[j].priceChangePercent))])
  IN  SubSeq(sorted, 1, IF Len(sorted) < TopMoversCount
                          THEN Len(sorted) ELSE TopMoversCount)

\* averageFundingRate of summarise, lines 113-117.
averageFundingRate(items) ==
  IF Len(items) > 0
    THEN DividedBy(Sum([j \in 1..Len(items) |-> OrZero(items[j].fundingRateBps)]),
                   Len(items))
    ELSE Zero

\* summarise, lines 101-135.
summarise(items, markets) ==
  [totalContracts |-> Len(items),
   markets |-> markets,
   totalQuoteVolume |->
     Sum([j \in 1..Len(items) |-> OrZero(items[j].quoteVolume)]),
   totalBaseVolume |->
     Sum([j \in 1..Len(items) |-> OrZero(items[j].baseVolume)]),
   averageFundingRate |-> averageFundingRate(items),
   topMovers |-> topMovers(items)]

\* One entry of the map over exchangeInfo.contracts, lines 145-167.
Metrics(contract, marketInfo) ==
  LET listed == contract.name \in DOMAIN marketInfo
      stats == IF listed THEN JObj(marketInfo[contract.name]) ELSE JUndef
      get(f) == IF listed /\ f \in DOMAIN marketInfo[contract.name]
                  THEN marketInfo[contract.name][f] ELSE JUndef
      rate == get("upcomingFundingRate")
  IN  [contract |-> contract,
       marketStats |-> stats,
       market |-> IF "market" \in DOMAIN contract
                    THEN contract.market ELSE "Unknown",
       lastPrice |-> toNumber(Coalesce(get("lastPrice"), get("marketPrice"))),
       markPrice |-> toNumber(get("marketPrice")),
       priceChangePercent |-> toNumber(get("priceChangePercent")),
       baseVolume |-> toNumber(get("baseAssetVolume")),
       quoteVolume |-> toNumber(get("quoteAssetVolume")),
       fundingRateBps |-> IF rate.t # "undefined"
                            THEN JNum(Times(Number(rate.s), 10000))
                            ELSE JUndef]

\* combinedContracts, lines 144-168.
combinedContracts(exchangeInfo, marketInfo) ==
  computeCombinedContracts(
    [j \in 1..Len(exchangeInfo.contracts) |->
       Metrics(exchangeInfo.contracts[j], marketInfo)])

\* primaryContract?.contract.name ?? null, lines 171-173 and 204.
primaryContract(items) ==
  LET hits == {j \in 1..Len(items) :
                 /\ "isDefaultContract" \in DOMAIN items[j].contract
                 /\ items[j].contract.isDefaultContract}
  IN  IF hits # {}
        THEN JStr(items[CHOOSE j \in hits : \A h \in hits : j <= h].contract.name)
      ELSE IF Len(items) > 0 THEN JStr(items[1].contract.name)
      ELSE JNull

(***************************************************************************)
(* Home: what exchange metadata and market info the model loads            *)
(***************************************************************************)
MaxContracts == 2

ContractNames == {"BTCINR", "ETHINR"}

\* A contract of the exchange metadata; ETHINR is the default contract.
Contract(name) ==
  IF name = "ETHINR" THEN [name |-> name, isDefaultContract |-> TRUE]
  ELSE [name |-> name]

\* Entries of the market info: a rise and a fall of one magnitude at one
\* volume, an entry without change and funding rate, one whose volume and
\* change are not numbers, and one without a volume whose change is "".
StatsOptions ==
  {[priceChangePercent |-> JStr("+3"), quoteAssetVolume |-> JStr("100"),
    upcomingFundingRate |-> JStr("0.0001")],
   [priceChangePercent |-> JStr("-3"), quoteAssetVolume |-> JStr("100"),
    upcomingFundingRate |-> JStr("0.0003")],
   [quoteAssetVolume |-> JStr("250.5"), baseAssetVolume |-> JStr("2"),
    marketPrice |-> JStr("8000000")],
   [priceChangePercent |-> JStr("n/a"), quoteAssetVolume |-> JStr("n/a"),
    upcomingFundingRate |-> JStr("0.0003")],
   [priceChangePercent |-> JStr(""), lastPrice |-> JStr("61.5")]}

\* Seven contracts in the order of their volumes, with the price changes
\* +1, -10, +3, -2, +0.5, +7 and -0.1.
MoverNames == <<"M1", "M2", "M3", "M4", "M5", "M6", "M7">>
MoverChanges == <<"+1", "-10", "+3", "-2", "+0.5", "+7", "-0.1">>
MoverVolumes == <<"700", "600", "500", "400", "300", "200", "100">>

MoversExample ==
  [exchangeInfo |->
     [markets |-> <<"INR">>,
      contracts |-> [j \in 1..Len(MoverNames) |-> [name |-> MoverNames[j]]]],
   marketInfo |->
     [name \in {MoverNames[j] : j \in 1..Len(MoverNames)} |->
        LET j == CHOOSE j \in 1..Len(MoverNames) : MoverNames[j] = name
        IN  [priceChangePercent |-> JStr(MoverChanges[j]),
             quoteAssetVolume |-> JStr(MoverVolumes[j])]]]

\* What getExchangeInfo and getMarketInfo may return.
Loads ==
  {MoversExample} \cup
  {[exchangeInfo |->
      [markets |-> <<"INR">>,
       contracts |-> [j \in 1..n |-> Contract(names[j])]],
    marketInfo |-> info] :
     n \in 0..MaxContracts, names \in [1..MaxContracts -> ContractNames],
     info \in UNION {[D -> StatsOptions] : D \in SUBSET ContractNames}}

\* Home is asked for the page: what its loads return, and whether the loads
\* of the page and those of the initial snapshot succeed.
HomeRequests ==
  {[kind |-> "request", loads |-> l, loaded |-> ok, snapshotLoaded |-> snap] :
     l \in Loads, ok \in BOOLEAN, snap \in BOOLEAN}

\* Home, lines 137-214: the props it hands to Dashboard, or its rejection
\* when one of the three loads of line 138 fails.
Home ==
  /\ page.kind = "request"
  /\ page' =
       IF ~page.loaded THEN [kind |-> "rejected", loads |-> page.loads]
       ELSE LET items == combinedContracts(page.loads.exchangeInfo,
                                            page.loads.marketInfo)
                primary == primaryContract(items)
            IN  [kind |-> "page",
                 loads |-> page.loads,
                 contracts |-> items,
                 summary |-> summarise(items, page.loads.exchangeInfo.markets),
                 initialSnapshot |->
                   [contract |-> primary,
                    loaded |-> primary # JNull /\ page.snapshotLoaded]]
  /\ UNCHANGED <<proxyVars, stateVars, dashVars, feedVars, explorer>>

(***************************************************************************)
(* ApiExplorer                                                             *)
(***************************************************************************)
\* What the user may type into the query, body and headers fields, and the
\* methods the user may choose.
QueryTexts == {"{}", " ", "{oops"}
BodyTexts == {"{}", " ", "{oops", "{\"limit\":50}"}
HeadersTexts == {"{}", "", "{oops"}
ExplorerMethods == {"GET", "POST"}

\* String.prototype.trim on the texts of the form.
Trim(t) == IF t = " " THEN "" ELSE t

\* JSON.parse on the texts of the form.
ParseField(t) ==
  CASE t = "{}" -> [threw |-> FALSE, value |-> EmptyObject]
    [] t = "{\"limit\":50}" ->
         [threw |-> FALSE, value |-> JObj([limit |-> JNum(50)])]
    [] OTHER ->
         [threw |-> TRUE,
          error |-> Err("SyntaxError", "Unexpected token o in JSON at position 1")]

\* What parsing a field of the form gives without calling JSON.parse.
Unparsed(v) == [threw |-> FALSE, value |-> v]

\* queryPayload, bodyPayload and headersPayload of execute, lines 936-943.
queryPayload(form) ==
  IF Trim(form.query) = "" THEN Unparsed(EmptyObject) ELSE ParseField(form.query)

bodyPayload(form) ==
  IF Trim(form.body) = "" \/ form.method = "GET" THEN Unparsed(JUndef)
  ELSE ParseField(form.body)

headersPayload(form) ==
  IF Trim(form.headers) = "" THEN Unparsed(EmptyObject)
  ELSE ParseField(form.headers)

\* JSON.stringify(res, null, 2) on what proxyRequest resolves with.
Pretty(res) ==
  CASE res = JNull -> "null"
    [] res = JObj([ok |-> JBool(TRUE)]) -> "{\n  \"ok\": true\n}"
    [] OTHER -> "[object]"

\* How proxyRequest settles, lines 301-322: with the data of the reply, with
\* null, or rejected with the error of the proxy.
ProxyOutcomes ==
  {[ok |-> TRUE, value |-> JObj([ok |-> JBool(TRUE)])],
   [ok |-> TRUE, value |-> JNull],
   [ok |-> FALSE, error |-> Err("Error", "Request failed with 502")]}

MaxSubmissions == 2

\* No request sent yet.
NoPayload == [sent |-> FALSE]

\* ApiExplorer's useState initialisers, lines 893-903, with the number of
\* clicks on "Send Request", the number of calls of proxyRequest and the
\* payload of the latest call.
ExplorerInit ==
  [method |-> "GET",
   path |-> "/v1/market/ticker24Hr/BTCINR",
   target |-> "public",
   query |-> "{}",
   body |-> "{}",
   headers |-> "{}",
   response |-> "",
   isLoading |-> FALSE,
   error |-> JNull,
   submissions |-> 0,
   requests |-> 0,
   payload |-> NoPayload]

\* The onChange handlers of the form, lines 1010-1063.
SetMethod(value) ==
  /\ explorer' = [explorer EXCEPT !.method = value]
  /\ UNCHANGED <<proxyVars, stateVars, dashVars, feedVars, page>>

SetQuery(value) ==
  /\ explorer' = [explorer EXCEPT !.query = value]
  /\ UNCHANGED <<proxyVars, stateVars, dashVars, feedVars, page>>

SetBody(value) ==
  /\ explorer' = [explorer EXCEPT !.body = value]
  /\ UNCHANGED <<proxyVars, stateVars, dashVars, feedVars, page>>

SetHeaders(value) ==
  /\ explorer' = [explorer EXCEPT !.headers = value]
  /\ UNCHANGED <<proxyVars, stateVars, dashVars, feedVars, page>>

\* execute, lines 932-960, up to its await: a click on "Send Request", which
\* is disabled while isLoading. A field that fails to parse takes execute to
\* its catch and finally clauses at once.
Execute ==
  /\ ~explorer.isLoading
  /\ explorer.submissions < MaxSubmissions
  /\ LET q == queryPayload(explorer)
         b == bodyPayload(explorer)
         h == headersPayload(explorer)
         failed == IF q.threw THEN q ELSE IF b.threw THEN b ELSE h
     IN  explorer' =
           IF failed.threw
             THEN [explorer EXCEPT !.isLoading = FALSE,
                                   !.error = JStr(failed.error.message),
                                   !.submissions = @ + 1]
             ELSE [explorer EXCEPT !.isLoading = TRUE,
                                   !.error = JNull,
                                   !.submissions = @ + 1,
                                   !.requests = @ + 1,
                                   !.payload = [sent |-> TRUE,
                                                method |-> explorer.method,
                                                path |-> explorer.path,
                                                target |-> explorer.target,
                                                query |-> q.value,
                                                body |-> b.value,
                                                headers |-> h.value]]
  /\ UNCHANGED <<proxyVars, stateVars, dashVars, feedVars, page>>

\* execute from its await on, lines 952-959: proxyRequest settles.
ProxySettles(outcome) ==
  /\ explorer.isLoading
  /\ explorer' =
       IF outcome.ok
         THEN [explorer EXCEPT !.response = Pretty(outcome.value),
                               !.isLoading = FALSE]
         ELSE [explorer EXCEPT !.error = JStr(outcome.error.message),
                               !.isLoading = FALSE]
  /\ UNCHANGED <<proxyVars, stateVars, dashVars, feedVars, page>>

ExplorerNext ==
  \/ \E value \in ExplorerMethods : SetMethod(value)
  \/ \E value \in QueryTexts : SetQuery(value)
  \/ \E value \in BodyTexts : SetBody(value)
  \/ \E value \in HeadersTexts : SetHeaders(value)
  \/ Execute
  \/ \E outcome \in ProxyOutcomes : ProxySettles(outcome)

(***************************************************************************)
(* Home and ApiExplorer at rest                                            *)
(***************************************************************************)
\* Home has not been asked for the page.
NotRendered == [kind |-> "none"]

PageIdle ==
  /\ page = NotRendered
  /\ explorer = ExplorerInit

\* The dashboard's life with the clicks that change the selection; a click on
\* what is selected already is a step of ReselectNext.
LifecycleNext ==
  \/ Mount
  \/ \E j \in 1..Len(contracts) :
       HandleSymbolSelect(contracts[j].name) /\ UNCHANGED nReselections
  \/ \E value \in IntervalOptions :
       HandleIntervalChange(value) /\ UNCHANGED nReselections
  \/ Unmount
  \/ \E f \in 1..Len(fetches), good \in BOOLEAN : SubRequestSettles(f, good)
  \/ Connect
  \/ Disconnect
  \/ ConnectError

FeedNext ==
  \/ LifecycleNext /\ nSelections' <= FeedSelections
  \/ \E e \in 1..4, j \in 1..Len(contracts), ivl \in IntervalOptions :
       nEvents < MaxEvents /\ FeedSend(e, j, ivl)
  \/ FeedDeliver

\* What the trades call of fetch f may return: null, a reply without data,
\* and replies with no trade, two, as many as a bundle keeps, and 150.
TradesReplies(s, f) ==
  {Null, NoData} \cup
  {TradesReply(s, f, n) : n \in {0, 2, BundleTradeLimit, BundleTradeLimit + 30}}

BundleNext ==
  \/ /\ \/ Mount
        \/ \E j \in 1..Len(contracts) : HandleSymbolSelect(contracts[j].name)
        \/ \E value \in IntervalOptions : HandleIntervalChange(value)
        \/ Unmount
     /\ nSelections' <= BundleSelections
     /\ UNCHANGED nReselections
  \/ \E f \in 1..Len(fetches), good \in BOOLEAN :
       \E reply \in TradesReplies(fetches[f].symbol, f) :
         SubRequestSettlesWith(f, good,
           BundleOf(fetches[f].symbol, fetches[f].interval, f, reply, 2))

IndicatorNext ==
  \/ /\ \/ Mount
        \/ \E j \in 1..Len(contracts) : HandleSymbolSelect(contracts[j].name)
        \/ \E value \in IntervalOptions : HandleIntervalChange(value)
        \/ Unmount
     /\ nSelections' <= FeedSelections
     /\ UNCHANGED nReselections
  \/ Connect
  \/ Disconnect
  \/ ConnectError
  \/ \E e \in 1..4, j \in 1..Len(contracts), ivl \in IntervalOptions :
       nEvents < MaxEvents /\ FeedSend(e, j, ivl)
  \/ FeedDeliver

\* Clicks on contracts and intervals, the selected ones among them, while
\* bundle fetches complete.
ReselectNext ==
  \/ /\ \/ Mount
        \/ \E j \in 1..Len(contracts) : HandleSymbolSelect(contracts[j].name)
        \/ \E value \in IntervalOptions : HandleIntervalChange(value)
        \/ Unmount
     /\ nSelections' <= BundleSelections
  \/ \E f \in 1..Len(fetches), good \in BOOLEAN : SubRequestSettles(f, good)

\* How many candles the exchange may return for a bundle: two, or as many as
\* the request allows.
KlineCounts == {2, BundleKlineLimit}

\* Kline events, for the topics subscribed, between symbol and interval
\* changes and the bundles they fetch. Every bundle arrives here, and a change
\* waits for the bundle of the change before it: a rejected or superseded
\* fetch applies nothing (C5, C6).
CandlesNext ==
  \/ Mount
  \/ /\ fetches # <<>>
     /\ LatestFetch.all.state # "pending"
     /\ \/ \E j \in 1..Len(contracts) : HandleSymbolSelect(contracts[j].name)
        \/ \E value \in IntervalOptions : HandleIntervalChange(value)
     /\ nSelections' <= BundleSelections
     /\ UNCHANGED nReselections
  \/ Connect
  \/ \E f \in 1..Len(fetches), nKlines \in KlineCounts :
       SubRequestSettlesWith(f, TRUE,
         Bundle(fetches[f].symbol, fetches[f].interval, f, 2, nKlines))
  \/ \E j \in 1..Len(contracts), ivl \in IntervalOptions :
       nEvents < MaxCandleEvents /\ FeedSend(4, j, ivl)
  \/ FeedDeliver

TradesNext ==
  \/ nEvents < MaxTrades /\ FeedSend(2, 1, interval)
  \/ FeedDeliver

QuotesNext ==
  \/ nEvents < MaxQuoteEvents /\ FeedSend(1, 1, interval)
  \/ nEvents < MaxQuoteEvents /\ FeedSend(3, 1, interval)
  \/ FeedDeliver

KlinesNext ==
  \/ nEvents < MaxKlineEvents /\ FeedSend(4, 1, interval)
  \/ FeedDeliver

(***************************************************************************)
(* Specifications                                                          *)
(***************************************************************************)
\* The route handler at rest and the dashboard as constructed.
Init == ProxyIdle /\ PageIdle /\ DashboardInit

\* The dashboard after Mount, Connect and the arrival of the first bundle,
\* which held nTrades trades and nKlines candles.
Streaming(nTrades, nKlines) ==
  LET name == ContractList[1].name
      bundle == Bundle(name, "1h", 1, nTrades, nKlines)
  IN  /\ lifecycle = "mounted"
      /\ contracts = ContractList
      /\ selectedSymbol = name
      /\ interval = "1h"
      /\ ticker = bundle.ticker
      /\ depth = bundle.depth
      /\ trades = bundle.trades
      /\ klines = bundle.klines
      /\ loading = FALSE
      /\ socketConnected = TRUE
      /\ socketRef = 1
      /\ transport = "open"
      /\ ops = SocketEffectOps(1)
                 \o SubscriptionEffectOps(1, ContractList[1], "1h", 1)
      /\ fetches = <<[symbol |-> name, interval |-> "1h", cancelled |-> FALSE,
                      all |-> [waiting |-> 0, rejected |-> FALSE,
                               state |-> "resolved"]]>>
      /\ wire = <<>>
      /\ last = Null
      /\ nSelections = 0
      /\ nReselections = 0
      /\ nEvents = 0
      /\ nConnects = 1

\* The exchange returned no trades, or more than fetchMarketBundle keeps.
TradesInit ==
  /\ ProxyIdle
  /\ PageIdle
  /\ \E nTrades \in {0, BundleTradeLimit + 1} : Streaming(nTrades, 2)

\* The dashboard streams after a bundle of two trades and two candles.
QuotesInit ==
  /\ ProxyIdle
  /\ PageIdle
  /\ Streaming(2, 2)

\* The exchange returned no candles, two, one fewer than it was asked for,
\* or as many.
KlinesInit ==
  /\ ProxyIdle
  /\ PageIdle
  /\ \E nKlines \in {0, 2, BundleKlineLimit - 1, BundleKlineLimit} :
       Streaming(2, nKlines)

\* Home is asked for a page, beside an idle proxy and dashboard.
HomeInit ==
  /\ ProxyIdle
  /\ DashboardInit
  /\ explorer = ExplorerInit
  /\ page \in HomeRequests

HomeNext == Home

\* The dashboard's selections, bundle fetches and connection.
Spec == Init /\ [][LifecycleNext]_vars

\* The route handler.
SpecProxy == Init /\ [][ProxyNext]_vars

\* The dashboard with the feed's events.
SpecFeed == Init /\ [][FeedNext]_vars

\* Bundle fetches and what their trades call returns.
SpecBundle == Init /\ [][BundleNext]_vars

\* The API explorer's form and submissions.
SpecExplorer == Init /\ [][ExplorerNext]_vars

\* A stream of depthUpdate and 24hrTicker events.
SpecQuotes == QuotesInit /\ [][QuotesNext]_vars

\* The connection, the selections and the feed, without fetch completions.
SpecIndicator == Init /\ [][IndicatorNext]_vars

\* Selections, repeated ones among them, and fetch completions.
SpecReselect == Init /\ [][ReselectNext]_vars

\* Kline events between selections and their bundles.
SpecCandles == Init /\ [][CandlesNext]_vars

\* Home renders the page.
SpecHome == HomeInit /\ [][HomeNext]_vars

\* A stream of aggTrade events for the selected contract.
SpecTrades == TradesInit /\ [][TradesNext]_vars

\* A stream of kline events for the selected contract and interval.
SpecKlines == KlinesInit /\ [][KlinesNext]_vars

(***************************************************************************)
(* Request proxy: properties                                               *)
(***************************************************************************)
\* The request passed requestSchema.
SchemaValid ==
  /\ raw.kind = "json"
  /\ SafeParse(raw.value).success

\* The upstream answered and its body was read to the end.
UpstreamCompleted ==
  /\ phase = "done"
  /\ response.kind = "response"
  /\ text.kind = "resolved"

\* C1: for every schema-valid request whose upstream fetch completes, the
\* reply's HTTP status and the `status` field of its body both equal the
\* upstream status code, whatever that code is.
C1_StatusMirrorsUpstream ==
  UpstreamCompleted =>
    /\ result.status = response.status
    /\ "status" \in DOMAIN result.body
    /\ result.body.status = response.status

\* C2: every malformed request body (one the schema rejects, or one that is
\* no JSON document) is answered 400 with a non-empty `issues` list, never 500.
C2_MalformedIs400 ==
  (phase = "done" /\ raw.kind \in {"malformed", "json"} /\ ~SchemaValid) =>
    /\ result.status = 400
    /\ "issues" \in DOMAIN result.body
    /\ result.body.issues # {}

\* The failure, if any, that struck a schema-valid request: the URL
\* constructor throwing, fetch rejecting, or response.text() rejecting.
RuntimeFailure ==
  LET data == SafeParse(raw.value).data
      url == NewURL(data.path, resolveBaseUrl(data.target))
  IN  IF url.threw THEN <<url.error>>
      ELSE IF response.kind = "rejected" THEN <<response.error>>
      ELSE IF text.kind = "rejected" THEN <<text.error>>
      ELSE <<>>

\* C3: a runtime failure while handling a schema-valid request is answered
\* 500 with body {error: <the error's message>}, and POST never lets an
\* exception escape.
C3_FailureIs500 ==
  /\ ~thrown
  /\ (phase = "done" /\ SchemaValid /\ RuntimeFailure # <<>>) =>
       result = [status |-> 500,
                 body |-> [error |-> RuntimeFailure[1].message]]

\* C3's case: the body of an upstream response could not be read.
C3_Witness ==
  /\ phase = "done"
  /\ SchemaValid
  /\ response.kind = "response"
  /\ text.kind = "rejected"
  /\ result.status = 500

\* C4: once the upstream body is read, the reply is {status, statusText, data}
\* with the upstream status; data is the raw text when the body is no JSON,
\* the parsed value when it is, and null when the body is empty.
C4_BodyDegradesToText ==
  UpstreamCompleted =>
    /\ result.status = response.status
    /\ DOMAIN result.body = {"status", "statusText", "data"}
    /\ result.body.data =
         (IF text.value = "" THEN JNull
          ELSE IF JSONparse(text.value).threw THEN JStr(text.value)
          ELSE JSONparse(text.value).value)

(***************************************************************************)
(* Dashboard: properties of the bundle fetch                               *)
(***************************************************************************)
\* C5: the four sub-requests of a bundle are all-or-nothing. A rejected
\* sub-request rejects the bundle and leaves ticker, depth, trades and klines
\* as they were; the four are written, together and from the bundle, only by
\* the step in which the last of four fulfilled sub-requests completes.
C5_AllOrNothing ==
  [][\A f \in 1..Len(fetches) :
       fetches'[f].all # fetches[f].all =>
         LET settled == fetches'[f].all
             bundle == MarketBundle(fetches[f].symbol, fetches[f].interval, f)
             applied == /\ ticker' = bundle.ticker
                        /\ depth' = bundle.depth
                        /\ trades' = bundle.trades
                        /\ klines' = bundle.klines
         IN  /\ settled.rejected =>
                  settled.state = "rejected" /\ UNCHANGED stateVars
             /\ settled.state = "pending" => UNCHANGED stateVars
             /\ stateVars' # stateVars =>
                  /\ ~settled.rejected
                  /\ fetches[f].all.waiting = 1
                  /\ settled.state = "resolved"
                  /\ applied
             /\ (settled.state = "resolved" /\ ~fetches[f].cancelled) => applied
    ]_vars

\* C5's case: the bundle fetch of the selection on screen was rejected and
\* the snapshot is still there.
C5_Witness ==
  /\ lifecycle = "mounted"
  /\ fetches # <<>>
  /\ fetches[Len(fetches)].all.state = "rejected"
  /\ ~fetches[Len(fetches)].cancelled
  /\ ticker = Item(contractName, "ssr", 0)

\* C6: whatever the interleaving of selection changes and fetch completions,
\* a step of a bundle fetch writes ticker, depth, trades or klines only if
\* the fetch is the one started for the symbol and interval now selected and
\* neither a selection change nor the disposal of the dashboard came after
\* its start.
C6_StaleFetchDiscarded ==
  [][\A f \in 1..Len(fetches) :
       (fetches'[f].all # fetches[f].all /\ stateVars' # stateVars) =>
         /\ lifecycle = "mounted"
         /\ f = Len(fetches)
         /\ ~fetches[f].cancelled
         /\ fetches[f].symbol = contractName
         /\ fetches[f].interval = interval
    ]_vars

\* C6's case: after A -> B -> A the fetch started for the first A resolved,
\* and what is on screen is not its bundle.
C6_Witness ==
  /\ lifecycle = "mounted"
  /\ Len(fetches) > 2
  /\ fetches[1].cancelled
  /\ fetches[1].all.state = "resolved"
  /\ fetches[1].symbol = contractName
  /\ fetches[1].interval = interval
  /\ ticker # MarketBundle(fetches[1].symbol, fetches[1].interval, 1).ticker

(***************************************************************************)
(* Dashboard: properties of the realtime buffers                           *)
(***************************************************************************)
\* The trades the feed sent so far, oldest first.
Arrived == [j \in 1..nEvents |-> Item(contractName, "ws", j)]

\* C7: every aggTrade event leaves trades with the new trade at its end and
\* at most 180 entries, and once 200 trades arrived one at a time trades is
\* the most recent 180 of them, oldest first.
C7_TradeRingBuffer ==
  (last # Null /\ last.ev = "aggTrade" /\ wire = <<>>) =>
    /\ Len(trades) <= 180
    /\ trades[Len(trades)] = last.payload
    /\ nEvents = 200 => trades = SubSeq(Arrived, 21, 200)

\* C8: a kline event without `k` leaves klines alone. One with a candle whose
\* startTime an entry has replaces the first such entry where it is, the
\* length unchanged; any other is added at the end and the result cut to its
\* last 400. When at most one entry had the startTime, exactly one has it
\* afterwards, and that is the candle of the event.
C8_KlineUpsert ==
  [][(last' # last /\ last'.ev = "kline") =>
       IF "k" \notin DOMAIN last'.payload THEN klines' = klines
       ELSE LET k == last'.payload.k
                hits == {j \in 1..Len(klines) :
                           klines[j].startTime = k.startTime}
                all == klines \o <<k>>
                drop == IF Len(all) > 400 THEN Len(all) - 400 ELSE 0
                after == {j \in 1..Len(klines') :
                            klines'[j].startTime = k.startTime}
            IN  /\ IF hits # {}
                     THEN /\ Len(klines') = Len(klines)
                          /\ \A j \in 1..Len(klines) :
                               klines'[j] =
                                 IF j \in hits /\ \A h \in hits : j <= h
                                   THEN k ELSE klines[j]
                     ELSE klines' = [j \in 1..(Len(all) - drop) |-> all[j + drop]]
                /\ Cardinality(hits) <= 1 =>
                     /\ Cardinality(after) = 1
                     /\ \A j \in after : klines'[j] = k
    ]_vars

\* C8's case: klines was cut to 400 entries, so that candle 1 is gone, and
\* the last event replaced an entry that is not the last one.
C8_Witness ==
  /\ last # Null
  /\ last.ev = "kline"
  /\ "k" \in DOMAIN last.payload
  /\ Len(klines) = 400
  /\ klines[1].startTime > 1
  /\ \E j \in 1..(Len(klines) - 1) : klines[j] = last.payload.k

(***************************************************************************)
(* Dashboard: properties of the connection and its subscriptions           *)
(***************************************************************************)
\* The four topics of the selection on screen.
CurrentTopics ==
  IF lifecycle = "mounted" /\ contractName # ""
    THEN {Topics(selectedContract, interval)[e] : e \in 1..4}
    ELSE {}

\* The topics that call number j on the socket names.
Names(j) == {ops[j].params[x] : x \in 1..Len(ops[j].params)}

\* C9: after any sequence of symbol and interval changes, disconnects and
\* reconnects, each of the four topics of the selected symbol and interval
\* has been subscribed exactly once more often than unsubscribed, and every
\* other topic as often as unsubscribed.
C9_OneSubscriptionSet ==
  LET current == CurrentTopics
      subs == {j \in 1..Len(ops) :
                 ops[j].op = "emit" /\ ops[j].ev = "subscribe"}
      unsubs == {j \in 1..Len(ops) :
                   ops[j].op = "emit" /\ ops[j].ev = "unsubscribe"}
      named == UNION {Names(j) : j \in subs \cup unsubs}
  IN  \A topic \in named \cup current :
        Cardinality({j \in subs : topic \in Names(j)})
          - Cardinality({j \in unsubs : topic \in Names(j)})
        = IF topic \in current THEN 1 ELSE 0

\* C9's case: A -> B -> A, the connection having dropped and come back.
C9_Witness ==
  /\ lifecycle = "mounted"
  /\ nSelections >= 2
  /\ nConnects >= 2
  /\ transport = "open"
  /\ selectedSymbol = ContractList[1].name
  /\ interval = "1h"
  /\ Emits(ops, "subscribe", Topics(ContractList[1], "1h")[2]) >= 2
  /\ Emits(ops, "subscribe", Topics(ContractList[2], "1h")[2]) >= 1

\* The calls a step adds to those made on the socket.
Added == SubSeq(ops', Len(ops) + 1, Len(ops'))

\* C10: a step opens a connection only when the dashboard mounts and
\* disconnects only when it is disposed, so that no symbol or interval change
\* does either; and a symbol or interval change first unsubscribes the
\* previous topics and detaches the four previous listeners, and only then
\* subscribes the new topics and attaches the new listeners.
C10_OneConnection ==
  [][/\ SubSeq(ops', 1, Len(ops)) = ops
     /\ \A j \in 1..Len(Added) :
          /\ Added[j].op = "io" => (lifecycle = "rendered" /\ j = 1)
          /\ Added[j].op = "disconnect" =>
               (lifecycle = "mounted" /\ lifecycle' = "unmounted")
     /\ (lifecycle = "rendered" /\ lifecycle' = "mounted") =>
          Added # <<>> /\ Added[1].op = "io"
     /\ (selectedSymbol' # selectedSymbol \/ interval' # interval) =>
          LET old == Topics(selectedContract, interval)
              new == Topics(selectedContract', interval')
              run == NextRun
          IN  Added = <<OpEmit("unsubscribe", old)>>
                        \o [e \in 1..4 |-> OpOff(FeedEvents[e], run - 1)]
                        \o <<OpEmit("subscribe", new)>>
                        \o [e \in 1..4 |-> OpOn(FeedEvents[e], run)]
    ]_vars

\* C10's case: the dashboard was disposed after a symbol and an interval
\* change.
C10_Witness ==
  /\ lifecycle = "unmounted"
  /\ nSelections >= 2
  /\ selectedSymbol # ContractList[1].name
  /\ interval # "1h"
  /\ Cardinality({j \in 1..Len(ops) :
                    ops[j].op = "emit" /\ ops[j].ev = "subscribe"}) = 3

(***************************************************************************)
(* Dashboard: properties of failure and retry                              *)
(***************************************************************************)
\* The bundle fetch of the selection on screen failed.
BundleFailed ==
  /\ lifecycle = "mounted"
  /\ fetches # <<>>
  /\ fetches[Len(fetches)].all.state = "rejected"
  /\ ~fetches[Len(fetches)].cancelled
  /\ fetches[Len(fetches)].symbol = contractName

\* C11: after the bundle fetch for the selected contract failed, the user
\* can retry it by re-selecting that contract: handleSymbolSelect with the
\* name of the selected contract starts a new bundle fetch.
C11_ManualRetry ==
  BundleFailed =>
    ENABLED (/\ HandleSymbolSelect(contractName)
             /\ Len(fetches') = Len(fetches) + 1)

(***************************************************************************)
(* Home                                                                    *)
(***************************************************************************)
\* The places of the combined contracts whose price change is a number.
Numeric == {j \in 1..Len(page.contracts) :
              page.contracts[j].priceChangePercent.t = "number"}

\* The magnitude of the price change at place j of the combined contracts.
Magnitude(j) == Abs(page.contracts[j].priceChangePercent.n)

\* How many contracts of a numeric change go before the one at place j: those
\* of a larger magnitude and the earlier ones of the same magnitude.
Ahead(j) ==
  Cardinality({i \in Numeric : \/ Less(Magnitude(j), Magnitude(i))
                               \/ Magnitude(i) = Magnitude(j) /\ i < j})

\* The names of the contracts in a list of metrics.
NamesOf(items) == [r \in 1..Len(items) |-> items[r].contract.name]

\* C12: the top movers are the (at most) 6 contracts of the largest absolute
\* price change among those whose change is a number, by descending
\* magnitude, ties in the order of the combined list; for the changes +1, -10,
\* +3, -2, +0.5, +7, -0.1 they are -10, +7, +3, -2, +1, +0.5; and the combined
\* list keeps its order.
C12_TopMovers ==
  page.kind = "page" =>
    LET movers == page.summary.topMovers
    IN  /\ Len(movers) = IF Cardinality(Numeric) < 6
                           THEN Cardinality(Numeric) ELSE 6
        /\ \A r \in 1..Len(movers) :
             \E j \in Numeric : Ahead(j) = r - 1 /\ movers[r] = page.contracts[j]
        /\ page.loads = MoversExample =>
             /\ NamesOf(movers) = <<"M2", "M6", "M3", "M4", "M1", "M5">>
             /\ NamesOf(page.contracts) = MoverNames

\* Home has summarised the seven contracts of the example.
C12_Witness ==
  /\ page.kind = "page"
  /\ page.loads = MoversExample
  /\ Len(page.summary.topMovers) = 6

\* Home has summarised a rise and a fall of one magnitude.
C12_TieWitness ==
  /\ page.kind = "page"
  /\ Len(page.summary.topMovers) = 2
  /\ page.summary.topMovers[1].priceChangePercent.n = FromInt(-3)
  /\ page.summary.topMovers[2].priceChangePercent.n = FromInt(3)

\* The funding rate the market info gives for the contract at place j of the
\* combined contracts, or JUndef.
FundingRate(j) ==
  LET stats == page.contracts[j].marketStats.o
  IN  IF "upcomingFundingRate" \in DOMAIN stats
        THEN stats.upcomingFundingRate ELSE JUndef

\* The combined contracts are two, of the funding rates 0.0001 and 0.0003.
FundingExample ==
  /\ page.kind = "page"
  /\ Len(page.contracts) = 2
  /\ {FundingRate(1), FundingRate(2)} = {JStr("0.0001"), JStr("0.0003")}

\* C13: funding in basis points is undefined exactly when the rate is absent,
\* the average funding rate is 0 for an empty list, and contracts of the
\* funding rates 0.0001 and 0.0003 have the average 2.
C13_FundingAverage ==
  page.kind = "page" =>
    /\ \A j \in 1..Len(page.contracts) :
         page.contracts[j].fundingRateBps = JUndef <=> FundingRate(j) = JUndef
    /\ Len(page.contracts) = 0 => page.summary.averageFundingRate = Zero
    /\ FundingExample => page.summary.averageFundingRate = FromInt(2)

\* The rest of C13 without the example: absent rates and the empty list.
C13_AbsentAndEmpty ==
  page.kind = "page" =>
    /\ \A j \in 1..Len(page.contracts) :
         page.contracts[j].fundingRateBps = JUndef <=> FundingRate(j) = JUndef
    /\ Len(page.contracts) = 0 => page.summary.averageFundingRate = Zero
    /\ Len(page.contracts) = 1 /\ FundingRate(1) = JUndef
         => page.summary.averageFundingRate = Zero

\* The contracts of the exchange metadata, and the places of those that have
\* an entry under their name in the market info.
Listed == page.loads.exchangeInfo.contracts

WithStats == {j \in 1..Len(Listed) : Listed[j].name \in DOMAIN page.loads.marketInfo}

\* The quote volume at place r of the combined contracts, 0 when it has none.
Volume(r) == OrZero(page.contracts[r].quoteVolume)

TradesFrom(reply, from) ==
  IF reply = Null \/ "data" \notin DOMAIN reply THEN <<>>
  ELSE [j \in 1..(Len(reply.data) - from + 1) |-> reply.data[from + j - 1]]

\* C15: when the bundle of the selection on screen arrives, the trades are
\* the last 120 the trades call returned, in their order: the trades from
\* the 31st on of 150, all of 120 or fewer, and none when the call returned
\* no data.
C15_BundleTrades ==
  [][\A f \in 1..Len(fetches) :
       \A reply \in TradesReplies(fetches[f].symbol, f) :
         (/\ SubRequestSettlesWith(f, TRUE,
               BundleOf(fetches[f].symbol, fetches[f].interval, f, reply, 2))
          /\ fetches'[f].all.state = "resolved"
          /\ ~fetches[f].cancelled)
         => trades' = TradesFrom(reply,
                        IF reply # Null /\ "data" \in DOMAIN reply
                             /\ Len(reply.data) > 120
                          THEN Len(reply.data) - 119 ELSE 1)]_vars

\* A bundle has arrived for which the exchange returned 150 trades.
C15_Witness ==
  /\ Len(trades) = 120
  /\ trades[1].via = "rest"
  /\ trades[1].n = 1031
  /\ trades[120].n = 1150

(***************************************************************************)
(* ApiExplorer                                                             *)
(***************************************************************************)
\* A field of the form parsed as JSON, a blank text standing for `blank`.
FieldParsed(t, blank) ==
  IF Trim(t) = "" THEN Unparsed(blank) ELSE ParseField(t)

\* A step of the explorer is a submission as described, where a blank body
\* stands for `blankBody`: a click parses the three fields, the body only
\* when the method is not GET; when one of them fails to parse no request is
\* sent, the error is set and the response stays; otherwise one request is
\* sent with the parsed fields. When the request settles, the response is
\* the pretty-printed result, or the error is the message and the response
\* stays.
Submission(blankBody) ==
  /\ Execute =>
       LET q == FieldParsed(explorer.query, EmptyObject)
           h == FieldParsed(explorer.headers, EmptyObject)
           b == IF explorer.method = "GET" THEN Unparsed(JUndef)
                ELSE FieldParsed(explorer.body, blankBody)
       IN  IF q.threw \/ b.threw \/ h.threw
             THEN /\ explorer'.requests = explorer.requests
                  /\ explorer'.payload = explorer.payload
                  /\ explorer'.error.t = "string"
                  /\ explorer'.response = explorer.response
                  /\ ~explorer'.isLoading
             ELSE /\ explorer'.requests = explorer.requests + 1
                  /\ explorer'.payload.method = explorer.method
                  /\ explorer'.payload.query = q.value
                  /\ explorer'.payload.body = b.value
                  /\ explorer'.payload.headers = h.value
  /\ \A outcome \in ProxyOutcomes :
       ProxySettles(outcome) =>
         /\ explorer'.requests = explorer.requests
         /\ ~explorer'.isLoading
         /\ IF outcome.ok
              THEN /\ explorer'.response = Pretty(outcome.value)
                   /\ explorer'.error = JNull
              ELSE /\ explorer'.error = JStr(outcome.error.message)
                   /\ explorer'.response = explorer.response

\* C16: a submission parses the query, body and headers fields as JSON with
\* a blank text standing for {}, omits the body when the method is GET, calls
\* the request proxy once and shows the pretty-printed response or the error
\* message; when a field fails to parse no request is sent, the error is set
\* and the response shown before stays.
C16_ExplorerSubmission == [][Submission(EmptyObject)]_vars

\* C16 but for the blank body, which is left out of the request.
C16_BlankBodyOmitted == [][Submission(JUndef)]_vars

(***************************************************************************)
(* Dashboard: depth and ticker events                                      *)
(***************************************************************************)
\* C17: a depthUpdate event makes depth the payload of the event and leaves
\* ticker, trades and klines as they are; a 24hrTicker event makes ticker the
\* payload and leaves depth, trades and klines as they are. Nothing of the
\* value before remains.
C17_DepthAndTickerReplace ==
  [][(FeedDeliver /\ Listeners(Head(wire).ev) # {}) =>
       /\ Head(wire).ev = "depthUpdate" =>
            /\ depth' = Head(wire).payload
            /\ UNCHANGED <<ticker, trades, klines>>
       /\ Head(wire).ev = "24hrTicker" =>
            /\ ticker' = Head(wire).payload
            /\ UNCHANGED <<depth, trades, klines>>]_vars

\* Depth and ticker events have each replaced what an earlier event of their
\* type had put there.
C17_Witness ==
  /\ depth # Null
  /\ ticker # Null
  /\ depth.via = "ws"
  /\ ticker.via = "ws"
  /\ depth.n >= 3
  /\ ticker.n >= 3

(***************************************************************************)
(* Dashboard: the topics of a selection                                    *)
(***************************************************************************)
\* The four topics of `symbol` written `sym` and interval ivl, where BTCINR
\* is configured with the grouping values "0.5 " and "1" and ETHINR with none.
TopicSet(symbol, sym, ivl) ==
  {sym \o "@depth_" \o (IF symbol = "BTCINR" THEN "0.5" ELSE "0.1"),
   sym \o "@aggTrade",
   sym \o "@ticker",
   sym \o "@kline_" \o ivl}

\* Every subscribe a step emits is for a selected contract and names the four
\* topics of the selected symbol and interval, the symbol in lower case or as
\* the contract list has it; and a mount or a change of selection with a
\* contract selected emits one.
SubscribesSelection(lowerCase) ==
  LET subscribes == {j \in 1..Len(Added) :
                       Added[j].op = "emit" /\ Added[j].ev = "subscribe"}
  IN  /\ \A j \in subscribes :
           /\ contractName' # ""
           /\ Len(Added[j].params) = 4
           /\ {Added[j].params[x] : x \in 1..4}
                = TopicSet(contractName',
                           IF lowerCase THEN ToLowerCase(contractName')
                           ELSE contractName',
                           interval')
      /\ (/\ lifecycle' = "mounted"
          /\ contractName' # ""
          /\ \/ lifecycle = "rendered"
             \/ selectedSymbol' # selectedSymbol
             \/ interval' # interval)
           => Cardinality(subscribes) = 1

\* C18 as stated: the topics subscribed for a selection are symbol@depth_g,
\* symbol@aggTrade, symbol@ticker and symbol@kline_interval for the selected
\* symbol and interval, g the first grouping value of the contract without
\* white space or "0.1"; and nothing is subscribed without a contract.
C18_TopicsAsListed == [][SubscribesSelection(FALSE)]_vars

\* C18: the same with the symbol in lower case.
C18_TopicsLowerCase == [][SubscribesSelection(TRUE)]_vars

\* The dashboard subscribed BTCINR with its grouping value and the 5m
\* candles.
C18_Witness ==
  /\ lifecycle = "mounted"
  /\ selectedSymbol = "BTCINR"
  /\ interval = "5m"
  /\ Subscribed("btcinr@depth_0.5") = 1
  /\ Subscribed("btcinr@kline_5m") = 1

\* The dashboard mounted without a contract and subscribed nothing.
C18_NoContract ==
  /\ lifecycle = "mounted"
  /\ contracts = <<>>
  /\ \A j \in 1..Len(ops) : ops[j].op # "emit"

(***************************************************************************)
(* Dashboard: the connection indicator                                     *)
(***************************************************************************)
\* C19: socketConnected is false when the dashboard is constructed, true
\* after every `connect` event and false after every `disconnect` and
\* `connect_error` event, the `disconnect` that disposing of the socket fires
\* included; no other step changes it, so no symbol or interval change and no
\* data event does.
C19_ConnectionIndicator ==
  /\ lifecycle = "rendered" => ~socketConnected
  /\ [][/\ (transport = "connecting" /\ transport' = "open") => socketConnected'
        /\ (transport = "open" /\ transport' # "open") => ~socketConnected'
        /\ ConnectError => ~socketConnected'
        /\ socketConnected' # socketConnected =>
             \/ transport = "connecting" /\ transport' = "open"
             \/ transport = "open" /\ transport' # "open"
        /\ (\/ selectedSymbol' # selectedSymbol
            \/ interval' # interval
            \/ wire' # wire /\ transport' = transport)
             => socketConnected' = socketConnected]_vars

\* The connection dropped, came back, and the indicator shows Connected.
C19_Witness ==
  /\ lifecycle = "mounted"
  /\ nConnects >= 2
  /\ transport = "open"
  /\ socketConnected

(***************************************************************************)
(* POST: the request as forwarded                                          *)
(***************************************************************************)
\* The entries of field f of the request object, none when it has no such
\* field.
Given(f) ==
  IF f \in DOMAIN raw.value.o THEN raw.value.o[f].o ELSE <<>>

\* The text of a query value of the model.
QueryText(v) ==
  IF v = JNum(0) THEN "0" ELSE IF v = JBool(FALSE) THEN "false" ELSE v.s

\* C20: the upstream URL carries key=String(value) for every query entry
\* whose value is not the empty string, 0 and false included, and nothing for
\* the others; the forwarded headers are Accept and Content-Type:
\* application/json, overridden by every caller header of a non-empty value,
\* and a caller header of an empty value leaves the default in place.
C20_Normalisation ==
  forward.kind = "sent" =>
    LET query == Given("query")
        headers == Given("headers")
        search == forward.url.search
        sent == forward.init.headers
        set == {k \in DOMAIN headers : headers[k].s # ""}
    IN  /\ DOMAIN search = {k \in DOMAIN query : query[k] # JStr("")}
        /\ \A k \in DOMAIN search : search[k] = QueryText(query[k])
        /\ DOMAIN sent = {"accept", "content-type"} \cup {LowerCase(k) : k \in set}
        /\ \A k \in set : sent[LowerCase(k)] = headers[k].s
        /\ \A n \in {"accept", "content-type"} :
             (\A k \in set : LowerCase(k) # n) => sent[n] = "application/json"

\* A request went upstream whose query holds 0, false and an empty string, and
\* whose headers hold an empty Accept and an API key.
C20_Witness ==
  /\ forward.kind = "sent"
  /\ DOMAIN Given("query") = {"pair", "limit", "live", "cursor"}
  /\ forward.url.search = [pair |-> "BTCINR", limit |-> "0", live |-> "false"]
  /\ DOMAIN Given("headers") = {"Accept", "X-Api-Key"}
  /\ forward.init.headers["accept"] = "application/json"
  /\ forward.init.headers["x-api-key"] = "k1"
(***************************************************************************)
(* Dashboard: properties of the loading flag                               *)
(***************************************************************************)
\* The fetches that settle in a step.
Settling ==
  {f \in 1..Len(fetches) :
     fetches[f].all.state = "pending" /\ fetches'[f].all.state # "pending"}

\* C21: while the dashboard is mounted, loading is false once the bundle
\* fetch started for the latest selection has completed, resolved or
\* rejected; after a symbol or interval change it is true for as long as that
\* fetch is in flight; and the completion of a superseded fetch leaves it as
\* it is.
C21_LoadingClears ==
  [][/\ (lifecycle' = "mounted" /\ fetches' # <<>>) =>
          IF LatestFetch'.all.state = "pending"
            THEN nSelections' > 0 => loading'
            ELSE ~loading'
     /\ \A f \in Settling : fetches[f].cancelled => loading' = loading
    ]_vars

\* C21's case: after two changes the fetch of the first change completed
\* while that of the second is in flight, and loading is still set.
C21_Witness ==
  /\ lifecycle = "mounted"
  /\ nSelections = 2
  /\ fetches[2].cancelled
  /\ fetches[2].all.state = "resolved"
  /\ LatestFetch.all.state = "pending"
  /\ loading

\* The fetch of the latest change was rejected and loading is cleared.
C21_RejectedClears ==
  /\ lifecycle = "mounted"
  /\ nSelections = 2
  /\ LatestFetch.all.state = "rejected"
  /\ ~loading
(***************************************************************************)
(* Dashboard: properties of the subscription effect over its lifetime      *)
(***************************************************************************)
IsEmit(o) == o.op = "emit"

\* The emissions made on the socket so far, oldest first.
Emissions == SelectSeq(ops, IsEmit)

\* Subscribe and unsubscribe alternate, a subscribe first, and each
\* unsubscribe carries the topics of the subscribe before it.
Alternating(emits) ==
  \A k \in 1..Len(emits) :
    IF k % 2 = 1 THEN emits[k].ev = "subscribe"
    ELSE /\ emits[k].ev = "unsubscribe"
         /\ emits[k].params = emits[k - 1].params

\* C22: from construction to disposal, subscribe and unsubscribe emissions
\* alternate, starting with a subscribe, and each unsubscribe names exactly
\* the topics of the subscribe before it; at most one handler is registered
\* for each of depthUpdate, aggTrade, 24hrTicker and kline; and a delivered
\* aggTrade event adds its trade to trades once.
C22_SubscriptionsAlternate ==
  /\ [](/\ Alternating(Emissions)
        /\ \A e \in 1..4 : Cardinality(Listeners(FeedEvents[e])) <= 1)
  /\ [][(last' # last /\ last'.ev = "aggTrade") =>
          trades' = Append(trades, last'.payload)]_vars

\* C22's case: after a change of the selection, which made the second and
\* third emission, a trade of the new selection was delivered, and the
\* dashboard was disposed of, which made the fourth.
C22_Witness ==
  /\ lifecycle = "unmounted"
  /\ nSelections >= 1
  /\ Len(Emissions) = 4
  /\ last # Null
  /\ last.ev = "aggTrade"
  /\ last.payload.s = contractName
  /\ trades # <<>>
  /\ trades[Len(trades)] = last.payload
  /\ \A e \in 1..4 : Listeners(FeedEvents[e]) = {}
(***************************************************************************)
(* Dashboard: properties of a repeated selection                           *)
(***************************************************************************)
\* C23: a call of handleSymbolSelect with the selected symbol, or of
\* handleIntervalChange with the selected interval, changes nothing: loading
\* is not set, no bundle fetch is started and none cancelled, nothing is
\* emitted on the socket, and ticker, depth, trades and klines, as well as
\* the selection itself, stay as they are.
C23_ReselectionIsNoOp ==
  [][nReselections' # nReselections =>
       /\ loading' = loading
       /\ fetches' = fetches
       /\ ops' = ops
       /\ UNCHANGED stateVars
       /\ UNCHANGED <<selectedSymbol, interval>>
    ]_vars

\* C23's case: the dashboard was mounted and what was selected was selected
\* again; there is the fetch of the mount and its subscription, and loading
\* was never set.
C23_Witness ==
  /\ lifecycle = "mounted"
  /\ nReselections > 0
  /\ nSelections = 0
  /\ Len(fetches) = 1
  /\ Len(Emissions) = 1
  /\ ~loading

\* The same while the fetch of a change is in flight.
C23_WhileLoading ==
  /\ lifecycle = "mounted"
  /\ nReselections > 0
  /\ nSelections = 1
  /\ LatestFetch.all.state = "pending"
  /\ loading
(***************************************************************************)
(* Dashboard: properties of the klines collection                          *)
(***************************************************************************)
\* The start times of the candles held.
HeldStartTimes == {klines[j].startTime : j \in 1..Len(klines)}

\* C24: the snapshot and every bundle holding at most 400 candles of pairwise
\* distinct startTime, klines has at most 400 entries, no two of them with
\* the same startTime, after any interleaving of kline events and bundle
\* applications.
C24_KlineCollection ==
  /\ Len(klines) <= 400
  /\ Cardinality(HeldStartTimes) = Len(klines)

\* C24's case: after a change of the selection a bundle of 400 candles was
\* applied, and a kline event then added a candle, which pushed the oldest
\* out.
C24_Witness ==
  /\ nSelections = 1
  /\ LatestFetch.all.state = "resolved"
  /\ Len(klines) = 400
  /\ klines[1].startTime = 2
  /\ klines[400].via = "ws"
  /\ \A j \in 1..399 : klines[j].via = "rest" /\ klines[j].n = Len(fetches)

\* A bundle replaced what kline events had added to the snapshot.
C24_BundleOverEvents ==
  /\ last # Null
  /\ "k" \in DOMAIN last.payload
  /\ fetches # <<>>
  /\ LatestFetch.all.state = "resolved"
  /\ klines # <<>>
  /\ \A j \in 1..Len(klines) : klines[j].via = "rest"
(***************************************************************************)
(* Dashboard: properties of a symbol switch                                *)
(***************************************************************************)
\* The symbol a payload of the feed belongs to.
EventSymbol(payload) ==
  IF "k" \in DOMAIN payload THEN payload.k.s ELSE payload.s

\* The symbols of what ticker, depth, trades and klines hold.
HeldSymbols ==
  {x.s : x \in {ticker, depth} \ {Null}}
    \cup {trades[j].s : j \in 1..Len(trades)}
    \cup {klines[j].s : j \in 1..Len(klines)}

\* The fetch of a switch from one symbol to another whose bundle this step
\* applies, or 0.
AppliedSwitch ==
  IF /\ lifecycle = "mounted"
     /\ Len(fetches) > 1
     /\ LatestFetch.symbol # fetches[Len(fetches) - 1].symbol
     /\ ~LatestFetch.cancelled
     /\ LatestFetch.all.state = "pending"
     /\ LatestFetch'.all.state = "resolved"
    THEN Len(fetches) ELSE 0

\* An event of a symbol that is not the selected one is not merged.
StaleEventDropped ==
  (last' # last /\ EventSymbol(last'.payload) # contractName) =>
    UNCHANGED stateVars

\* Once the bundle of the selected symbol is applied, everything held is of
\* that symbol.
OnlySelectedHeld ==
  (/\ lifecycle' = "mounted"
   /\ fetches' # <<>>
   /\ LatestFetch'.all.state = "resolved"
   /\ LatestFetch'.symbol = contractName') =>
    HeldSymbols' \subseteq {contractName'}

\* The trades of the new symbol that the feed delivered before the bundle
\* was applied are still held after it.
EventsKept ==
  AppliedSwitch > 0 =>
    \A j \in 1..Len(trades) :
      (trades[j].via = "ws" /\ trades[j].s = fetches[AppliedSwitch].symbol) =>
        \E i \in 1..Len(trades') : trades'[i] = trades[j]

\* C25: after a switch from symbol A to symbol B no event of A is merged
\* into ticker, depth, trades or klines; once the bundle of B is applied the
\* four hold data of B only; and the events of B delivered between the switch
\* and the application of the bundle are not lost.
C25_SwitchIsolation ==
  [][StaleEventDropped /\ OnlySelectedHeld /\ EventsKept]_vars

\* The three parts of C25, each on its own.
C25_StaleEventDropped == [][StaleEventDropped]_vars
C25_OnlySelectedHeld == [][OnlySelectedHeld]_vars
C25_EventsKept == [][EventsKept]_vars
====
